---- MODULE Spec2Model ----
(***************************************************************************)
(* coedit: element store, auto-cut region materialization, the two         *)
(* renderers (live preview and export) and the export pipeline.            *)
(*                                                                         *)
(* Time is counted in ticks of 1/120 s, so that the frame periods of the   *)
(* three export frame rates (24, 30, 60 fps = 5, 4, 2 ticks) and the 0.1 s *)
(* duration floor (12 ticks) are whole numbers.  Opacity and animation     *)
(* dialogProgress are counted in hundredths (1.0 = 100).                         *)
(***************************************************************************)
EXTENDS Integers, Sequences, FiniteSets, TLC

VARIABLES
    elements,      \* useElementStore.elements: the layer-ordered element list
    selectedIds,   \* useElementStore.selectedIds
    nextUid,       \* the next value uid() hands out
    regions,       \* AutoCutPanel: regions state, [null |-> TRUE] or a list of regions
    applied,       \* AutoCutPanel: applied state
    analyzing,     \* AutoCutPanel: analyzing state (handleAnalyze is awaiting)
    currentTime,   \* usePlaybackStore.currentTime
    isPlaying,     \* usePlaybackStore.isPlaying
    previewOut,    \* what the live preview shows (CanvasViewport + SubtitleOverlay)
    prevPreview,   \* the preview render before the last one, while the list is the same
    exportFrame,   \* the last frame renderFrameWithAssets drew from the current list
    duration,      \* usePlaybackStore.duration (the composition's length)
    settingsFps,   \* ExportDialog: settings.fps
    dialogProgress,      \* ExportDialog: dialogProgress.phase, "null" when dialogProgress is null
    error,         \* ExportDialog: an error message is shown
    abortRef,      \* ExportDialog: the run whose AbortController abortRef holds, 0 = null
    ffmpegInstance,\* exportPipeline: the loaded FFmpeg instance, 0 = null
    fsFrames,      \* per FFmpeg instance: the frame_NNNNNN.rgba files of its file system
    fsOutput,      \* per FFmpeg instance: the output file exists
    runs,          \* the exportProject calls: one record per call
    downloads,     \* the runs whose blob handleExport passed to downloadBlob
    pastStates,    \* useElementStore.temporal: the undo history, oldest first
    futureStates,  \* useElementStore.temporal: the redo history
    dragMode,      \* TimelinePanel: dragMode, "null" when null
    dragId,        \* TimelinePanel: dragId, 0 when null
    dragStartRef,  \* TimelinePanel: dragStartRef.current (the pointer is measured from mouseX)
    snapEnabled,   \* useTimelineStore.snapEnabled
    timelineZoom,  \* useTimelineStore.timelineZoom, pixels per second
    timelineTool,  \* useUIStore.timelineTool
    drags,         \* the number of drags started
    playbackRate,  \* usePlaybackStore.playbackRate
    loopEnabled    \* usePlaybackStore.loopEnabled

storeVars == <<elements, selectedIds, nextUid>>
autoCutVars == <<regions, applied, analyzing>>
playbackVars == <<currentTime, isPlaying>>
renderVars == <<previewOut, prevPreview, exportFrame>>

exportVars == <<duration, settingsFps, dialogProgress, error, abortRef, ffmpegInstance,
                fsFrames, fsOutput, runs, downloads>>

historyVars == <<pastStates, futureStates>>

timelineVars == <<dragMode, dragId, dragStartRef, snapEnabled, timelineZoom, timelineTool, drags>>

shuttleVars == <<playbackRate, loopEnabled>>

vars == <<elements, selectedIds, nextUid, regions, applied, analyzing,
          currentTime, isPlaying, previewOut, prevPreview, exportFrame,
          duration, settingsFps, dialogProgress, error, abortRef, ffmpegInstance,
          fsFrames, fsOutput, runs, downloads, pastStates, futureStates,
          dragMode, dragId, dragStartRef, snapEnabled, timelineZoom, timelineTool, drags,
          playbackRate, loopEnabled>>

NullRegions == [null |-> TRUE, list |-> <<>>]

(***************************************************************************)
(* Bounds of the model.                                                    *)
(***************************************************************************)
MaxElements == 2
MaxUid == MaxElements + 1
MaxRegions == 2

(***************************************************************************)
(* 0.1 s, the duration floor, in ticks.                                    *)
(***************************************************************************)
MinDuration == 12

Max(a, b) == IF a > b THEN a ELSE b
Min(a, b) == IF a < b THEN a ELSE b

RECURSIVE SumSeq(_)
SumSeq(s) == IF s = <<>> THEN 0 ELSE Head(s) + SumSeq(Tail(s))

(***************************************************************************)
(* { ...e, ...patch }                                                      *)
(***************************************************************************)
Merge(e, patch) ==
    [f \in (DOMAIN e) \cup (DOMAIN patch) |->
        IF f \in DOMAIN patch THEN patch[f] ELSE e[f]]

(***************************************************************************)
(* elementFactory.ts                                                       *)
(***************************************************************************)
baseDefaults ==
    [ rotation |-> 0, opacity |-> 100, visible |-> TRUE, locked |-> FALSE,
      startTime |-> 0, duration |-> 1200,
      animation |-> "none", animationExit |-> "none",
      animDuration |-> 72, animExitDuration |-> 72, easing |-> "ease-out",
      filter |-> "none" ]

createTextElement(id, overrides) ==
    Merge(Merge(baseDefaults, [id |-> id, type |-> "text"]), overrides)

createShapeElement(shapeType, id, overrides) ==
    Merge(Merge(baseDefaults, [id |-> id, type |-> shapeType]), overrides)

createImageElement(id, overrides) ==
    Merge(Merge(baseDefaults, [id |-> id, type |-> "image", src |-> ""]), overrides)

createVideoElement(id, overrides) ==
    Merge(Merge(baseDefaults,
                [id |-> id, type |-> "video", src |-> "", trimIn |-> 0,
                 trimOut |-> IF "duration" \in DOMAIN overrides /\ overrides.duration # 0
                             THEN overrides.duration ELSE 1200,
                 playbackRate |-> 100]),
          overrides)

createAudioElement(id, overrides) ==
    Merge(Merge(baseDefaults,
                [id |-> id, type |-> "audio", src |-> "", trimIn |-> 0,
                 trimOut |-> IF "duration" \in DOMAIN overrides /\ overrides.duration # 0
                             THEN overrides.duration ELSE 1200]),
          overrides)

createSubtitleElement(id, cues, overrides) ==
    Merge(Merge(baseDefaults, [id |-> id, type |-> "subtitle", cues |-> cues]), overrides)

createElement(type, id, overrides) ==
    CASE type = "text" -> createTextElement(id, overrides)
      [] type = "shape" -> createShapeElement("shape", id, overrides)
      [] type = "circle" -> createShapeElement("circle", id, overrides)
      [] type = "image" -> createImageElement(id, overrides)
      [] type = "video" -> createVideoElement(id, overrides)
      [] type = "audio" -> createAudioElement(id, overrides)
      [] type = "subtitle" -> createSubtitleElement(id, <<>>, overrides)
      [] OTHER -> createTextElement(id, overrides)

ElementTypes == {"text", "shape", "circle", "image", "video", "audio", "subtitle"}

Ids(els) == {els[i].id : i \in 1..Len(els)}

(***************************************************************************)
(* The element store (types/element.ts).                                   *)
(***************************************************************************)
addElementTo(els, el) == Append(els, el)

updateElementIn(els, id, patch) ==
    [i \in 1..Len(els) |-> IF els[i].id = id THEN Merge(els[i], patch) ELSE els[i]]

RECURSIVE Filter(_, _)
Filter(els, ids) ==
    IF els = <<>> THEN <<>>
    ELSE IF Head(els).id \in ids THEN Filter(Tail(els), ids)
         ELSE <<Head(els)>> \o Filter(Tail(els), ids)

\* a faulty variant of deleteElements: only the first listed element is removed
RECURSIVE deleteFirstMatchOnly(_, _)
deleteFirstMatchOnly(els, ids) ==
    IF els = <<>> THEN <<>>
    ELSE IF Head(els).id \in ids THEN Tail(els)
         ELSE <<Head(els)>> \o deleteFirstMatchOnly(Tail(els), ids)

deleteElementsFrom(els, ids) == Filter(els, ids)

(***************************************************************************)
(* Toolbar "add" (createElement(type, {startTime: currentTime})) and the   *)
(* media drop (createVideoElement / createAudioElement with the asset's    *)
(* blob and duration), followed by addElement.                             *)
(***************************************************************************)
AddTypes == {"text", "video", "audio"}
AddStartTimes == {120}

AddElement(type, st) ==
    /\ nextUid <= MaxUid
    /\ LET el == IF type \in {"video", "audio"}
                 THEN createElement(type, nextUid,
                        [src |-> "blob", startTime |-> st, duration |-> 1200, trimOut |-> 1200])
                 ELSE createElement(type, nextUid, [startTime |-> st])
       IN  /\ elements' = addElementTo(elements, el)
    /\ nextUid' = nextUid + 1
    /\ UNCHANGED selectedIds

(***************************************************************************)
(* updateElement(id, patch), with patches a caller may pass.               *)
(***************************************************************************)
Patches ==
    { <<>>, [duration |-> 6], [startTime |-> -12], [trimIn |-> 60] }

UpdateElement(id, patch) ==
    /\ elements' = updateElementIn(elements, id, patch)
    /\ UNCHANGED <<selectedIds, nextUid>>

DeleteElements(ids) ==
    /\ elements' = deleteElementsFrom(elements, ids)
    /\ selectedIds' = {id \in selectedIds : id \notin ids}
    /\ UNCHANGED nextUid

SelectElement(id, additive) ==
    /\ selectedIds' = IF additive
                      THEN IF id \in selectedIds THEN selectedIds \ {id}
                           ELSE selectedIds \cup {id}
                      ELSE {id}
    /\ UNCHANGED <<elements, nextUid>>

(***************************************************************************)
(* AutoCutPanel.tsx                                                        *)
(***************************************************************************)
IsMedia(e) == e.type = "video" \/ e.type = "audio"

MediaIds(els) == {els[i].id : i \in {j \in 1..Len(els) : IsMedia(els[j])}}

\* elements.find((e) => selectedIds.has(e.id) && (e.type === 'video' || e.type === 'audio'))
SelectedMediaIdx(els, sel) ==
    {i \in 1..Len(els) : els[i].id \in sel /\ IsMedia(els[i])}

HasSelectedEl == SelectedMediaIdx(elements, selectedIds) # {}

selectedEl ==
    LET idx == SelectedMediaIdx(elements, selectedIds)
    IN  elements[CHOOSE i \in idx : \A j \in idx : i <= j]

(***************************************************************************)
(* The regions the analysis collaborator (vadAnalyzer) may return: ordered,*)
(* non-overlapping, start < end, each speech or silence.                   *)
(***************************************************************************)
RegionSpans == {<<120, 360>>, <<360, 720>>, <<720, 1080>>}
RegionTypes == {"speech", "silence"}
Region == {[start |-> sp[1], end |-> sp[2], type |-> ty] : sp \in RegionSpans, ty \in RegionTypes}

RegionLists ==
    UNION {
        {rs \in [1..n -> Region] : \A i \in 1..(n - 1) : rs[i].end <= rs[i + 1].start}
        : n \in 0..MaxRegions }

HandleAnalyzeStart ==
    /\ ~analyzing
    /\ HasSelectedEl
    /\ selectedEl.src # ""
    /\ analyzing' = TRUE
    /\ regions' = NullRegions
    /\ applied' = FALSE
    /\ UNCHANGED <<elements, selectedIds, nextUid>>

HandleAnalyzeDone(rs) ==
    /\ analyzing
    /\ analyzing' = FALSE
    /\ regions' = [null |-> FALSE, list |-> rs]
    /\ UNCHANGED <<elements, selectedIds, nextUid, applied>>

\* catch branch of handleAnalyze: the analysis failed, regions stays null
HandleAnalyzeFailed ==
    /\ analyzing
    /\ analyzing' = FALSE
    /\ UNCHANGED <<elements, selectedIds, nextUid, regions, applied>>

RECURSIVE SpeechOnly(_)
SpeechOnly(rs) ==
    IF rs = <<>> THEN <<>>
    ELSE IF Head(rs).type = "speech" THEN <<Head(rs)>> \o SpeechOnly(Tail(rs))
         ELSE SpeechOnly(Tail(rs))

\* (origEl.trimIn || 0)
TrimInOr0(e) == IF "trimIn" \in DOMAIN e THEN e.trimIn ELSE 0

\* a faulty variant of RegionClip: every clip at its region's own offset, not back-to-back
RegionClipAtRegionStart(origEl, region, timeOffset, id) ==
    Merge(origEl,
          [ id |-> id,
            startTime |-> origEl.startTime + region.start,
            duration |-> region.end - region.start,
            trimIn |-> TrimInOr0(origEl) + region.start,
            trimOut |-> TrimInOr0(origEl) + region.end ])

\* the body of the for loop of handleApply: the new clip of one region
RegionClip(origEl, region, timeOffset, id) ==
    Merge(origEl,
          [ id |-> id,
            startTime |-> timeOffset,
            duration |-> region.end - region.start,
            trimIn |-> TrimInOr0(origEl) + region.start,
            trimOut |-> TrimInOr0(origEl) + region.end ])

RECURSIVE Materialize(_, _, _, _)
Materialize(origEl, rs, timeOffset, id) ==
    IF rs = <<>> THEN <<>>
    ELSE <<RegionClip(origEl, Head(rs), timeOffset, id)>>
         \o Materialize(origEl, Tail(rs), timeOffset + (Head(rs).end - Head(rs).start), id + 1)

HandleApply ==
    /\ ~regions.null
    /\ ~applied
    /\ HasSelectedEl
    /\ LET speechRegions == SpeechOnly(regions.list)
           origEl == selectedEl
       IN  /\ speechRegions # <<>>
           /\ nextUid + Len(speechRegions) - 1 <= MaxUid
           /\ elements' = deleteElementsFrom(elements, {origEl.id})
                            \o Materialize(origEl, speechRegions, origEl.startTime, nextUid)
           /\ selectedIds' = selectedIds \ {origEl.id}
           /\ nextUid' = nextUid + Len(speechRegions)
    /\ applied' = TRUE
    /\ UNCHANGED <<regions, analyzing>>

\* "Re-analyze" / "Reset" buttons: setRegions(null) (and setApplied(false))
ResetRegions ==
    /\ ~regions.null
    /\ regions' = NullRegions
    /\ applied' = FALSE
    /\ UNCHANGED <<elements, selectedIds, nextUid, analyzing>>

(***************************************************************************)
(* utils/math: clamp                                                       *)
(***************************************************************************)
clamp(v, lo, hi) == Min(Max(v, lo), hi)

(***************************************************************************)
(* utils/easing.ts: applyEasing, on t in 0..100 (hundredths).  The bounce  *)
(* polynomial n*(t - c/d)^2 + k with n = 7.5625 = 121/16 and d = 2.75 =    *)
(* 11/4 is (11t - 4c)^2/1600 + k in hundredths.                            *)
(***************************************************************************)
applyEasing(t, ease) ==
    CASE ease = "ease-in" -> (t * t) \div 100
      [] ease = "ease-out" -> (t * (200 - t)) \div 100
      [] ease = "ease-in-out" ->
            IF t < 50 THEN (2 * t * t) \div 100
            ELSE ((400 - 2 * t) * t) \div 100 - 100
      [] ease = "bounce" ->
            IF 11 * t < 400 THEN (121 * t * t) \div 1600
            ELSE IF 11 * t < 800
                 THEN ((11 * t - 600) * (11 * t - 600) + 120000) \div 1600
            ELSE IF 11 * t < 1000
                 THEN ((11 * t - 900) * (11 * t - 900) + 150000) \div 1600
            ELSE ((11 * t - 1050) * (11 * t - 1050) + 157500) \div 1600
      [] OTHER -> t

(***************************************************************************)
(* utils/animation.ts.  A style is a record holding only the properties    *)
(* the function sets; lengths are in hundredths of a pixel, degree or      *)
(* percent, scale factors in ten-thousandths.                              *)
(***************************************************************************)
getAnimTransform(anim, progress, easing) ==
    LET t == applyEasing(clamp(progress, 0, 100), easing)
    IN  CASE anim = "fadeIn" -> [opacity |-> t]
          [] anim = "fadeOut" -> [opacity |-> 100 - t]
          [] anim = "slideLeft" -> [opacity |-> t, transform |-> <<"translateX", (100 - t) * 80>>]
          [] anim = "slideRight" -> [opacity |-> t, transform |-> <<"translateX", (t - 100) * 80>>]
          [] anim = "slideUp" -> [opacity |-> t, transform |-> <<"translateY", (100 - t) * 60>>]
          [] anim = "scaleUp" -> [opacity |-> t, transform |-> <<"scale", 3000 + 70 * t>>]
          [] anim = "scaleDown" -> [opacity |-> t, transform |-> <<"scale", 15000 - 50 * t>>]
          [] anim = "rotateIn" ->
                [opacity |-> t, transform |-> <<"rotate scale", (100 - t) * 180, 5000 + 50 * t>>]
          [] anim = "bounceIn" -> [opacity |-> t, transform |-> <<"scale", 3000 + 70 * t>>]
          [] anim = "typewriter" -> [clipPath |-> <<"inset right", (100 - t) * 100>>]
          [] anim = "blurIn" -> [opacity |-> t, filter |-> <<"blur", (100 - t) * 8>>]
          [] anim = "glitch" ->
                [opacity |-> IF t > 10 THEN 100 ELSE 0,
                 transform |-> IF t < 80 THEN <<"translate sin cos", t>> ELSE <<"none">>]
          [] OTHER -> <<>>

getExitAnimTransform(anim, progress, easing) ==
    LET t == applyEasing(clamp(progress, 0, 100), easing)
    IN  CASE anim \in {"fadeIn", "fadeOut"} -> [opacity |-> 100 - t]
          [] anim = "slideLeft" -> [opacity |-> 100 - t, transform |-> <<"translateX", (0 - t) * 80>>]
          [] anim = "slideRight" -> [opacity |-> 100 - t, transform |-> <<"translateX", t * 80>>]
          [] anim = "slideUp" -> [opacity |-> 100 - t, transform |-> <<"translateY", (0 - t) * 60>>]
          [] anim = "scaleUp" -> [opacity |-> 100 - t, transform |-> <<"scale", 10000 + 50 * t>>]
          [] anim = "scaleDown" -> [opacity |-> 100 - t, transform |-> <<"scale", 10000 - 70 * t>>]
          [] anim = "rotateIn" ->
                [opacity |-> 100 - t, transform |-> <<"rotate scale", t * 180, 10000 - 50 * t>>]
          [] anim = "bounceIn" -> [opacity |-> 100 - t, transform |-> <<"scale", 10000 - 70 * t>>]
          [] anim = "typewriter" -> [clipPath |-> <<"inset left", t * 100>>]
          [] anim = "blurIn" -> [opacity |-> 100 - t, filter |-> <<"blur", t * 8>>]
          [] anim = "glitch" ->
                [opacity |-> IF t < 90 THEN 100 ELSE 0,
                 transform |-> IF t > 20 THEN <<"translate sin cos", t>> ELSE <<"none">>]
          [] OTHER -> <<>>

Animations ==
    {"none", "fadeIn", "fadeOut", "slideLeft", "slideRight", "slideUp", "scaleUp",
     "scaleDown", "rotateIn", "bounceIn", "typewriter", "blurIn", "glitch"}

(***************************************************************************)
(* What a renderer puts on screen: drawn, one record per element it draws  *)
(* (its effective opacity, transform, filter and clip), and cues, the      *)
(* subtitle cues it shows as <<element id, cue id>>.                       *)
(***************************************************************************)
Undefined == <<"undefined">>

isInTime(el, time) == time >= el.startTime /\ time < el.startTime + el.duration

(***************************************************************************)
(* CanvasViewport.renderElement: the style of one element, for an element  *)
(* it returns a node for.                                                  *)
(***************************************************************************)
PreviewAnimStyle(el, time) ==
    LET inTime == isInTime(el, time)
        entry == IF el.animation # "none" /\ inTime
                 THEN getAnimTransform(el.animation,
                        clamp(((time - el.startTime) * 100) \div el.animDuration, 0, 100),
                        el.easing)
                 ELSE <<>>
        timeToEnd == (el.startTime + el.duration) - time
        exit == IF el.animationExit # "none" /\ inTime /\ timeToEnd <= el.animExitDuration
                THEN getExitAnimTransform(el.animationExit,
                        clamp(100 - (timeToEnd * 100) \div el.animExitDuration, 0, 100),
                        el.easing)
                ELSE <<>>
    IN  Merge(entry, exit)

PreviewStyle(el, time) ==
    LET animStyle == PreviewAnimStyle(el, time)
    IN  [ id |-> el.id,
          opacity |-> IF "opacity" \in DOMAIN animStyle THEN animStyle.opacity ELSE el.opacity,
          transform |-> IF "transform" \in DOMAIN animStyle THEN animStyle.transform
                        ELSE <<"rotate", el.rotation>>,
          filter |-> IF "filter" \in DOMAIN animStyle THEN animStyle.filter
                     ELSE IF el.filter # "none" THEN <<el.filter>> ELSE Undefined,
          clipPath |-> IF "clipPath" \in DOMAIN animStyle THEN animStyle.clipPath
                       ELSE Undefined ]

\* renderElement returns a node (not null) for el
renderElementDraws(el, time, playing) ==
    /\ el.visible
    /\ ~(~isInTime(el, time) /\ playing)
    /\ el.type \in {"text", "shape", "circle", "image", "video"}

(***************************************************************************)
(* SubtitleOverlay: the cues shown for one visible subtitle element.       *)
(***************************************************************************)
SubtitleOverlayCues(sub, time) ==
    LET activeCues == {i \in 1..Len(sub.cues) :
                          /\ time >= sub.startTime + sub.cues[i].startTime
                          /\ time <= sub.startTime + sub.cues[i].endTime}
        absoluteCues == {i \in 1..Len(sub.cues) :
                          /\ time >= sub.cues[i].startTime
                          /\ time <= sub.cues[i].endTime}
        cues == IF activeCues # {} THEN activeCues ELSE absoluteCues
    IN  {<<sub.id, sub.cues[i].id>> : i \in cues}

PreviewRender(els, time, playing) ==
    [ drawn |-> {PreviewStyle(els[i], time) :
                    i \in {j \in 1..Len(els) : renderElementDraws(els[j], time, playing)}},
      cues |-> UNION {SubtitleOverlayCues(els[i], time) :
                    i \in {j \in 1..Len(els) : els[j].type = "subtitle" /\ els[j].visible}} ]

(***************************************************************************)
(* exportPipeline.ts: preloadAssets and renderFrameWithAssets.             *)
(***************************************************************************)
\* the ids in the images / videos maps: elements with a src whose load succeeded
preloadAssets(els, type, loadOk) ==
    {els[i].id : i \in {j \in 1..Len(els) :
                          els[j].type = type /\ els[j].src # "" /\ loadOk}}

ExportStyle(el) ==
    [ id |-> el.id,
      opacity |-> el.opacity,
      transform |-> <<"rotate", el.rotation>>,
      filter |-> Undefined,
      clipPath |-> Undefined ]

\* the loop body draws something for el
renderFrameDraws(el, time, images, videos) ==
    /\ el.visible
    /\ isInTime(el, time)
    /\ \/ el.type \in {"text", "shape", "circle"}
       \/ el.type = "image" /\ el.id \in images
       \/ el.type = "video" /\ el.id \in videos

ExportCues(sub, time) ==
    {<<sub.id, sub.cues[i].id>> :
        i \in {j \in 1..Len(sub.cues) :
                 time >= sub.cues[j].startTime /\ time <= sub.cues[j].endTime}}

renderFrameWithAssets(els, time, images, videos) ==
    [ drawn |-> {ExportStyle(els[i]) :
                    i \in {j \in 1..Len(els) : renderFrameDraws(els[j], time, images, videos)}},
      cues |-> UNION {ExportCues(els[i], time) :
                    i \in {j \in 1..Len(els) :
                             /\ els[j].type = "subtitle"
                             /\ els[j].visible
                             /\ isInTime(els[j], time)}} ]

(***************************************************************************)
(* The preview re-renders after every store change (React subscription);   *)
(* prevPreview keeps the render it replaces while the element list is the  *)
(* same, exportFrame is dropped when the list changes.                     *)
(***************************************************************************)
NoRender == [valid |-> FALSE, time |-> 0, out |-> [drawn |-> {}, cues |-> {}]]
NoFrame == [valid |-> FALSE, time |-> 0, assets |-> {}, out |-> [drawn |-> {}, cues |-> {}]]

Rerender ==
    /\ previewOut' = PreviewRender(elements', currentTime', isPlaying')
    /\ prevPreview' = IF elements' = elements
                      THEN [valid |-> TRUE, time |-> currentTime, out |-> previewOut]
                      ELSE NoRender
    /\ exportFrame' = IF elements' = elements THEN exportFrame ELSE NoFrame

\* usePlaybackStore.setCurrentTime (timeline click, scrub)
SetCurrentTime(time) ==
    /\ currentTime' = Max(0, time)
    /\ UNCHANGED isPlaying

\* usePlaybackStore.togglePlay
TogglePlay ==
    /\ isPlaying' = ~isPlaying
    /\ UNCHANGED currentTime

\* one frame of the export loop: renderFrameWithAssets on the current list
RenderExportFrame(time, loadOk) ==
    /\ exportFrame' =
         [ valid |-> TRUE, time |-> time,
           assets |-> preloadAssets(elements, "image", loadOk)
                        \cup preloadAssets(elements, "video", loadOk),
           out |-> renderFrameWithAssets(elements, time,
                      preloadAssets(elements, "image", loadOk),
                      preloadAssets(elements, "video", loadOk)) ]
    /\ UNCHANGED <<previewOut, prevPreview>>

(***************************************************************************)
(* exportPipeline.ts: exportProject, and ExportDialog.tsx.                 *)
(*                                                                         *)
(* A run is one call of exportProject.  pc is the await the call is        *)
(* suspended at ("idle" before the call, "resolved" / "rejected" once it   *)
(* has settled).  A frame file holds the run that wrote it and the time it *)
(* was rendered at.                                                        *)
(***************************************************************************)
MaxRuns == 2
Runs == 1..MaxRuns

ExportFps == {24, 30, 60}

Abs(x) == IF x < 0 THEN 0 - x ELSE x

\* Math.ceil(duration * settings.fps), duration in ticks of 1/120 s
TotalFrames(dur, fps) == (dur * fps + 119) \div 120

\* frame / settings.fps, in ticks
FrameTime(frame, fps) == (frame * 120) \div fps

IdleRun ==
    [ pc |-> "idle", inst |-> 0, fps |-> 0, totalFrames |-> 0, frame |-> 0,
      frameData |-> <<>>, i |-> 0, aborted |-> FALSE, videos |-> <<>>,
      pending |-> {}, seekTarget |-> <<>>, err |-> "", encInput |-> <<>> ]

isExporting == dialogProgress # "null" /\ dialogProgress # "done" /\ dialogProgress # "error"

Settled(r) == runs[r].pc \in {"resolved", "rejected"}

\* the ids of the video elements preloadAssets makes a <video> for
VideoIds(els) == {els[k].id : k \in {j \in 1..Len(els) : els[j].type = "video" /\ els[j].src # ""}}

ElementById(els, id) == els[CHOOSE k \in 1..Len(els) : els[k].id = id]

\* el.trimIn + (currentTime - el.startTime) * (el.playbackRate || 1)
SourceTime(el, time) ==
    el.trimIn + ((time - el.startTime) * (IF el.playbackRate # 0 THEN el.playbackRate ELSE 100)) \div 100

\* the videos the frame loop seeks at time: visible, preloaded, in their window
ActiveVideos(els, vids, time) ==
    {id \in vids : ElementById(els, id).visible /\ isInTime(ElementById(els, id), time)}

\* seekVideo sets video.currentTime unless Math.abs(video.currentTime - time) < 0.02
NeedsSeek(videoCurrentTime, time) == ~(Abs(videoCurrentTime - time) * 100 < 2 * 120)

\* the frames '-i frame_%06d.rgba' names: frame_000000, frame_000001, ... while they exist
RECURSIVE EncoderInputFrom(_, _)
EncoderInputFrom(files, k) ==
    IF \E f \in files : f.idx = k
    THEN <<CHOOSE f \in files : f.idx = k>> \o EncoderInputFrom(files, k + 1)
    ELSE <<>>

EncoderInput(files) == EncoderInputFrom(files, 0)

\* ffmpeg.writeFile(name, data): creates or replaces the file
WriteFile(files, idx, run, time) ==
    {f \in files : f.idx # idx} \cup {[idx |-> idx, run |-> run, time |-> time]}

\* ffmpeg.deleteFile(name)
DeleteFile(files, idx) == {f \in files : f.idx # idx}

\* exportProject throws: handleExport's catch branch runs
Reject(r, err) ==
    /\ runs' = [runs EXCEPT ![r].pc = "rejected", ![r].err = err]
    /\ IF err = "Export cancelled"
       THEN dialogProgress' = "null" /\ UNCHANGED error
       ELSE dialogProgress' = "error" /\ error' = TRUE

\* ExportDialog.handleExport up to the first await of exportProject / getFFmpeg
HandleExport ==
    /\ ~isExporting
    /\ dialogProgress # "done"
    /\ \E r \in Runs :
          /\ runs[r].pc = "idle"
          /\ \A q \in Runs : q < r => runs[q].pc # "idle"
          /\ runs' = [runs EXCEPT ![r] =
                [ IdleRun EXCEPT
                    !.pc = IF ffmpegInstance # 0 THEN "preloading" ELSE "loading",
                    !.inst = IF ffmpegInstance # 0 THEN ffmpegInstance ELSE r,
                    !.fps = settingsFps,
                    !.totalFrames = TotalFrames(duration, settingsFps) ]]
          /\ abortRef' = r
    /\ error' = FALSE
    /\ dialogProgress' = IF ffmpegInstance # 0 THEN "rendering" ELSE "loading"
    /\ UNCHANGED <<duration, settingsFps, ffmpegInstance, fsFrames, fsOutput, downloads>>

\* ffmpeg.load() resolved: getFFmpeg stores the instance
LoadDone(r) ==
    /\ runs[r].pc = "loading"
    /\ ffmpegInstance' = runs[r].inst
    /\ runs' = [runs EXCEPT ![r].pc = "preloading"]
    /\ dialogProgress' = "rendering"
    /\ UNCHANGED <<duration, settingsFps, error, abortRef, fsFrames, fsOutput, downloads>>

\* preloadAssets resolved; the frame loop is entered
PreloadDone(r) ==
    /\ runs[r].pc = "preloading"
    /\ runs' = [runs EXCEPT ![r].pc = "frame",
                            ![r].videos = [id \in VideoIds(elements) |-> 0],
                            ![r].seekTarget = [id \in VideoIds(elements) |-> 0]]
    /\ dialogProgress' = "rendering"
    /\ UNCHANGED <<duration, settingsFps, error, abortRef, ffmpegInstance, fsFrames,
                   fsOutput, downloads>>

\* top of a frame iteration: the abort check, then seekVideo on every active video
FrameBegin(r) ==
    /\ runs[r].pc = "frame"
    /\ IF runs[r].aborted
       THEN Reject(r, "Export cancelled")
       ELSE LET time == FrameTime(runs[r].frame, runs[r].fps)
                active == ActiveVideos(elements, DOMAIN runs[r].videos, time)
                toSeek == {id \in active :
                             NeedsSeek(runs[r].videos[id], SourceTime(ElementById(elements, id), time))}
            IN  /\ runs' = [runs EXCEPT
                     ![r].pc = "seeking",
                     ![r].pending = toSeek,
                     ![r].seekTarget = [id \in DOMAIN runs[r].videos |->
                          IF id \in toSeek THEN SourceTime(ElementById(elements, id), time)
                          ELSE runs[r].seekTarget[id]]]
                /\ UNCHANGED <<dialogProgress, error>>
    /\ UNCHANGED <<duration, settingsFps, abortRef, ffmpegInstance, fsFrames, fsOutput,
                   downloads>>

\* a 'seeked' event: the video shows the frame of the time it was sent to
SeekDone(r, id) ==
    /\ runs[r].pc = "seeking"
    /\ id \in runs[r].pending
    /\ runs' = [runs EXCEPT ![r].pending = @ \ {id},
                            ![r].videos = [@ EXCEPT ![id] = runs[r].seekTarget[id]]]
    /\ UNCHANGED <<duration, settingsFps, dialogProgress, error, abortRef, ffmpegInstance,
                   fsFrames, fsOutput, downloads>>

\* Promise.all(seekPromises) resolved: the frame is drawn and captured
FrameRender(r) ==
    /\ runs[r].pc = "seeking"
    /\ runs[r].pending = {}
    /\ LET time == FrameTime(runs[r].frame, runs[r].fps)
           active == ActiveVideos(elements, DOMAIN runs[r].videos, time)
           captured == [ time |-> time,
                         shown |-> {[id |-> id, at |-> runs[r].videos[id],
                                     want |-> SourceTime(ElementById(elements, id), time)]
                                    : id \in active} ]
           last == runs[r].frame + 1 = runs[r].totalFrames
       IN  /\ runs' = [runs EXCEPT ![r].frameData = Append(@, captured),
                                   ![r].frame = @ + 1,
                                   ![r].pc = IF last THEN "write" ELSE "frame"]
           /\ dialogProgress' = IF last THEN "encoding" ELSE "rendering"
    /\ UNCHANGED <<duration, settingsFps, error, abortRef, ffmpegInstance, fsFrames,
                   fsOutput, downloads>>

\* top of a write iteration: the abort check, then ffmpeg.writeFile is called
WriteBegin(r) ==
    /\ runs[r].pc = "write"
    /\ IF runs[r].aborted
       THEN Reject(r, "Export cancelled")
       ELSE /\ runs' = [runs EXCEPT ![r].pc = "writing"]
            /\ UNCHANGED <<dialogProgress, error>>
    /\ UNCHANGED <<duration, settingsFps, abortRef, ffmpegInstance, fsFrames, fsOutput,
                   downloads>>

\* ffmpeg.writeFile resolved; after the last frame ffmpeg.exec is called
WriteDone(r) ==
    /\ runs[r].pc = "writing"
    /\ LET inst == runs[r].inst
           files == WriteFile(fsFrames[inst], runs[r].i, r, runs[r].frameData[runs[r].i + 1].time)
           last == runs[r].i + 1 = Len(runs[r].frameData)
       IN  /\ fsFrames' = [fsFrames EXCEPT ![inst] = files]
           /\ runs' = [runs EXCEPT
                ![r].i = @ + 1,
                ![r].pc = IF last THEN "executing" ELSE "write",
                ![r].encInput = IF last THEN EncoderInput(files) ELSE @]
           /\ dialogProgress' = IF last \/ runs[r].i % 10 = 0 THEN "encoding" ELSE dialogProgress
    /\ UNCHANGED <<duration, settingsFps, error, abortRef, ffmpegInstance, fsOutput,
                   downloads>>

\* ffmpeg.exec resolved: the output file is written, ffmpeg.readFile is called
ExecDone(r) ==
    /\ runs[r].pc = "executing"
    /\ fsOutput' = [fsOutput EXCEPT ![runs[r].inst] = TRUE]
    /\ runs' = [runs EXCEPT ![r].pc = "reading"]
    /\ dialogProgress' = "encoding"
    /\ UNCHANGED <<duration, settingsFps, error, abortRef, ffmpegInstance, fsFrames,
                   downloads>>

\* ffmpeg.exec threw
ExecFail(r) ==
    /\ runs[r].pc = "executing"
    /\ Reject(r, "encoder")
    /\ UNCHANGED <<duration, settingsFps, abortRef, ffmpegInstance, fsFrames, fsOutput,
                   downloads>>

\* ffmpeg.readFile resolved: the blob is built, the cleanup loop is entered
ReadDone(r) ==
    /\ runs[r].pc = "reading"
    /\ runs' = [runs EXCEPT ![r].pc = "cleanup", ![r].i = 0]
    /\ UNCHANGED <<duration, settingsFps, dialogProgress, error, abortRef, ffmpegInstance,
                   fsFrames, fsOutput, downloads>>

\* ffmpeg.readFile threw
ReadFail(r) ==
    /\ runs[r].pc = "reading"
    /\ Reject(r, "read")
    /\ UNCHANGED <<duration, settingsFps, abortRef, ffmpegInstance, fsFrames, fsOutput,
                   downloads>>

\* one ffmpeg.deleteFile of the cleanup loop
CleanupStep(r) ==
    /\ runs[r].pc = "cleanup"
    /\ runs[r].i < Len(runs[r].frameData)
    /\ fsFrames' = [fsFrames EXCEPT ![runs[r].inst] = DeleteFile(@, runs[r].i)]
    /\ runs' = [runs EXCEPT ![r].i = @ + 1]
    /\ UNCHANGED <<duration, settingsFps, dialogProgress, error, abortRef, ffmpegInstance,
                   fsOutput, downloads>>

\* the output file is deleted, exportProject returns the blob, handleExport downloads it
CleanupFinish(r) ==
    /\ runs[r].pc = "cleanup"
    /\ runs[r].i = Len(runs[r].frameData)
    /\ fsOutput' = [fsOutput EXCEPT ![runs[r].inst] = FALSE]
    /\ runs' = [runs EXCEPT ![r].pc = "resolved"]
    /\ dialogProgress' = "done"
    /\ downloads' = downloads \cup {r}
    /\ UNCHANGED <<duration, settingsFps, error, abortRef, ffmpegInstance, fsFrames>>

\* ExportDialog.handleCancel (the Cancel button is shown while isExporting)
HandleCancel ==
    /\ isExporting
    /\ IF abortRef # 0
       THEN /\ runs' = [runs EXCEPT ![abortRef].aborted = TRUE]
            /\ abortRef' = 0
       ELSE UNCHANGED <<runs, abortRef>>
    /\ dialogProgress' = "null"
    /\ UNCHANGED <<duration, settingsFps, error, ffmpegInstance, fsFrames, fsOutput,
                   downloads>>

\* ExportDialog.handleClose (and the dialog is opened again)
HandleClose ==
    /\ ~isExporting
    /\ dialogProgress # "null"
    /\ dialogProgress' = "null"
    /\ error' = FALSE
    /\ UNCHANGED <<duration, settingsFps, abortRef, ffmpegInstance, fsFrames, fsOutput,
                   runs, downloads>>

\* the frame-rate select of the dialog (shown with the Export button)
SetFps(fps) ==
    /\ ~isExporting
    /\ dialogProgress # "done"
    /\ fps # settingsFps
    /\ settingsFps' = fps
    /\ UNCHANGED <<duration, dialogProgress, error, abortRef, ffmpegInstance, fsFrames,
                   fsOutput, runs, downloads>>

(***************************************************************************)
(* TimelinePanel.tsx: snapping, clip drags, the blade, split at playhead;  *)
(* timelineStore.ts: the Q and W keys.  Pointer positions are pixels,      *)
(* times are ticks.                                                        *)
(***************************************************************************)
SnapThresholdPx == 8

\* px / timelineZoom, in ticks
pxToTime(px) == (px * 120) \div timelineZoom

\* Math.round(t) of a time in seconds, in ticks
NearestSecond(t) == ((t + 60) \div 120) * 120

\* elements.forEach of snapTime: acc is <<best, bestDist>>
RECURSIVE SnapToEdges(_, _, _, _)
SnapToEdges(els, t, ignoreId, acc) ==
    IF els = <<>> THEN acc
    ELSE LET el == Head(els)
             start == el.startTime
             end == el.startTime + el.duration
             a1 == IF Abs(t - start) < acc[2] THEN <<start, Abs(t - start)>> ELSE acc
             a2 == IF Abs(t - end) < a1[2] THEN <<end, Abs(t - end)>> ELSE a1
         IN  SnapToEdges(Tail(els), t, ignoreId, IF el.id = ignoreId THEN acc ELSE a2)

\* a faulty variant of snapTime: the whole-second tick is scanned first
snapTimeTickFirst(t, ignoreId) ==
    IF ~snapEnabled THEN t
    ELSE LET a0 == <<t, pxToTime(SnapThresholdPx)>>
             a1 == IF Abs(t - NearestSecond(t)) < a0[2]
                   THEN <<NearestSecond(t), Abs(t - NearestSecond(t))>> ELSE a0
             a2 == IF Abs(t - currentTime) < a1[2]
                   THEN <<currentTime, Abs(t - currentTime)>> ELSE a1
         IN  SnapToEdges(elements, t, ignoreId, a2)[1]

snapTime(t, ignoreId) ==
    IF ~snapEnabled THEN t
    ELSE LET a0 == <<t, pxToTime(SnapThresholdPx)>>
             a1 == IF Abs(t - currentTime) < a0[2]
                   THEN <<currentTime, Abs(t - currentTime)>> ELSE a0
             a2 == SnapToEdges(elements, t, ignoreId, a1)
         IN  IF Abs(t - NearestSecond(t)) < a2[2] THEN NearestSecond(t) ELSE a2[1]

\* dragStartRef.current as onClipMouseDown sets it
DragStartOf(el) ==
    [startTime |-> el.startTime, duration |-> el.duration, trimIn |-> TrimInOr0(el)]

\* onTimelineMouseMove, dragMode 'move': the element after the step
MoveStep(el, ref, deltaTime) ==
    LET start0 == Max(0, ref.startTime + deltaTime)
        start1 == snapTime(start0, el.id)
        newEnd == snapTime(start1 + el.duration, el.id)
        start2 == IF newEnd # start1 + el.duration THEN newEnd - el.duration ELSE start1
    IN  Merge(el, [startTime |-> Max(0, start2)])

\* onTimelineMouseMove, dragMode 'trim-left'
TrimLeftStep(el, ref, deltaTime) ==
    LET rawStart == ref.startTime + deltaTime
        minStart == 0
        maxStart == ref.startTime + ref.duration - MinDuration
        start1 == snapTime(clamp(rawStart, minStart, maxStart), el.id)
        newStart == clamp(start1, minStart, maxStart)
        newDuration == ref.duration - (newStart - ref.startTime)
        el1 == Merge(el, [startTime |-> newStart, duration |-> Max(MinDuration, newDuration)])
    IN  IF IsMedia(el)
        THEN Merge(el1, [trimIn |-> Max(0, ref.trimIn + (newStart - ref.startTime))])
        ELSE el1

\* onTimelineMouseMove, dragMode 'trim-right'
TrimRightStep(el, ref, deltaTime) ==
    LET newDuration == Max(MinDuration, ref.duration + deltaTime)
        newEnd == snapTime(el.startTime + newDuration, el.id)
    IN  Merge(el, [duration |-> Max(MinDuration, newEnd - el.startTime)])

\* onTimelineMouseMove, dragMode 'slip'
SlipStep(el, ref, deltaTime) ==
    IF IsMedia(el) THEN Merge(el, [trimIn |-> Max(0, ref.trimIn + deltaTime)]) ELSE el

DragStep(el, mode, ref, deltaTime) ==
    CASE mode = "move" -> MoveStep(el, ref, deltaTime)
      [] mode = "trim-left" -> TrimLeftStep(el, ref, deltaTime)
      [] mode = "trim-right" -> TrimRightStep(el, ref, deltaTime)
      [] mode = "slip" -> SlipStep(el, ref, deltaTime)

ReplaceElement(els, el) == [k \in 1..Len(els) |-> IF els[k].id = el.id THEN el ELSE els[k]]

\* a faulty variant of the second half: trimIn is not advanced
SecondHalfSameTrim(el, mouseTime, id) ==
    Merge(el, [id |-> id, startTime |-> mouseTime,
               duration |-> el.duration - (mouseTime - el.startTime)])

\* bladeClip / splitAtPlayhead: the clone appended after the cut
SecondHalf(el, mouseTime, id) ==
    LET splitPoint == mouseTime - el.startTime
        half == Merge(el, [id |-> id, startTime |-> mouseTime,
                           duration |-> el.duration - splitPoint])
    IN  IF IsMedia(half) THEN Merge(half, [trimIn |-> TrimInOr0(el) + splitPoint]) ELSE half

\* bladeClip(el, mouseTime): the list after the cut
bladeClip(els, el, mouseTime, id) ==
    IF mouseTime <= el.startTime \/ mouseTime >= el.startTime + el.duration
    THEN els
    ELSE addElementTo(updateElementIn(els, el.id, [duration |-> mouseTime - el.startTime]),
                      SecondHalf(el, mouseTime, id))

MaxDrags == 1
TimelineTools == {"select", "blade", "ripple", "roll", "slide", "slip"}
DragTools == {"select", "slip"}
HandleModes == {"body", "trim-left", "trim-right"}

\* onClipMouseDown(e, el, mode) with the pointer at pixel x of the timeline
ClipMouseDown(id, handle, x) ==
    LET el == ElementById(elements, id)
    IN  IF timelineTool = "blade"
        THEN /\ nextUid <= MaxUid
             /\ elements' = bladeClip(elements, el, pxToTime(x), nextUid)
             /\ nextUid' = IF elements' = elements THEN nextUid ELSE nextUid + 1
             /\ UNCHANGED <<selectedIds, dragMode, dragId, dragStartRef, drags>>
        ELSE /\ drags < MaxDrags
             /\ selectedIds' = {id}
             /\ dragMode' = IF handle = "body"
                            THEN (IF timelineTool = "slip" THEN "slip" ELSE "move")
                            ELSE handle
             /\ dragId' = id
             /\ dragStartRef' = DragStartOf(el)
             /\ drags' = drags + 1
             /\ UNCHANGED <<elements, nextUid>>

\* onTimelineMouseMove with the pointer deltaX pixels from where the drag began
TimelineMouseMove(deltaX) ==
    /\ dragMode # "null"
    /\ dragId # 0
    /\ dragId \in Ids(elements)
    /\ elements' = ReplaceElement(elements,
                      DragStep(ElementById(elements, dragId), dragMode, dragStartRef,
                               pxToTime(deltaX)))
    /\ UNCHANGED <<selectedIds, nextUid, dragMode, dragId, dragStartRef, drags>>

\* onTimelineMouseUp
TimelineMouseUp ==
    /\ dragMode # "null"
    /\ dragMode' = "null"
    /\ dragId' = 0
    /\ UNCHANGED <<elements, selectedIds, nextUid, dragStartRef, drags>>

\* the ids of the selection in list order
RECURSIVE SelectedInOrder(_, _)
SelectedInOrder(els, sel) ==
    IF els = <<>> THEN <<>>
    ELSE IF Head(els).id \in sel THEN <<Head(els).id>> \o SelectedInOrder(Tail(els), sel)
         ELSE SelectedInOrder(Tail(els), sel)

\* splitAtPlayhead: ids.forEach over the selection; els0 is the list the handler closed over
RECURSIVE SplitEach(_, _, _, _, _)
SplitEach(els, els0, ids, time, id) ==
    IF ids = <<>> THEN els
    ELSE LET el == ElementById(els0, Head(ids))
             cut == bladeClip(els, el, time, id)
         IN  SplitEach(cut, els0, Tail(ids), time, IF cut = els THEN id ELSE id + 1)

splitAtPlayhead ==
    /\ selectedIds # {}
    /\ LET ids == SelectedInOrder(elements, selectedIds)
           after == SplitEach(elements, elements, ids, currentTime, nextUid)
       IN  /\ nextUid + (Len(after) - Len(elements)) - 1 <= MaxUid
           /\ elements' = after
           /\ nextUid' = nextUid + (Len(after) - Len(elements))
    /\ UNCHANGED <<selectedIds, dragMode, dragId, dragStartRef, drags>>

\* useKeyboard 'q': trim the selected clips' left side to the playhead
TrimToPlayheadQ(el, ct) ==
    IF ct <= el.startTime \/ ct >= el.startTime + el.duration THEN el
    ELSE LET trimAmount == ct - el.startTime
             el1 == Merge(el, [startTime |-> ct, duration |-> el.duration - trimAmount])
         IN  IF IsMedia(el) THEN Merge(el1, [trimIn |-> TrimInOr0(el) + trimAmount]) ELSE el1

\* useKeyboard 'w': trim the selected clips' right side to the playhead
TrimToPlayheadW(el, ct) ==
    IF ct <= el.startTime \/ ct >= el.startTime + el.duration THEN el
    ELSE Merge(el, [duration |-> ct - el.startTime])

KeyQ ==
    /\ selectedIds # {}
    /\ elements' = [k \in 1..Len(elements) |->
                      IF elements[k].id \in selectedIds
                      THEN TrimToPlayheadQ(elements[k], currentTime) ELSE elements[k]]
    /\ UNCHANGED <<selectedIds, nextUid, dragMode, dragId, dragStartRef, drags>>

KeyW ==
    /\ selectedIds # {}
    /\ elements' = [k \in 1..Len(elements) |->
                      IF elements[k].id \in selectedIds
                      THEN TrimToPlayheadW(elements[k], currentTime) ELSE elements[k]]
    /\ UNCHANGED <<selectedIds, nextUid, dragMode, dragId, dragStartRef, drags>>

\* onTimelineDrop of a video asset of 10.05 s at pixel x; the track that addTrack
\* creates for the clip is named by the clip's own number
AssetDuration == 1206

TimelineDrop(x) ==
    /\ nextUid <= MaxUid
    /\ elements' = addElementTo(elements,
          createVideoElement(nextUid,
              [src |-> "blob", trackId |-> nextUid, startTime |-> Max(0, pxToTime(x)),
               duration |-> AssetDuration, trimOut |-> AssetDuration]))
    /\ nextUid' = nextUid + 1
    /\ UNCHANGED <<selectedIds, dragMode, dragId, dragStartRef, drags>>

\* scrub: the playhead is set to the pointer
totalWidth == Max((duration * timelineZoom) \div 120, 800)

Scrub(x) == currentTime' = clamp(pxToTime(clamp(x, 0, totalWidth)), 0, duration)

\* useTimelineStore.setTimelineZoom
SetTimelineZoom(z) == timelineZoom' = Max(20, Min(400, z))

(***************************************************************************)
(* The state after the application has started: an empty project of 30 s.  *)
(***************************************************************************)
InitStore ==
    /\ elements = <<>>
    /\ selectedIds = {}
    /\ nextUid = 1
    /\ regions = NullRegions
    /\ applied = FALSE
    /\ analyzing = FALSE

InitPlayback ==
    /\ currentTime = 0
    /\ isPlaying = FALSE

InitRender ==
    /\ previewOut = PreviewRender(elements, 0, FALSE)
    /\ prevPreview = NoRender
    /\ exportFrame = NoFrame

InitExport ==
    /\ settingsFps = 30
    /\ dialogProgress = "null"
    /\ error = FALSE
    /\ abortRef = 0
    /\ ffmpegInstance = 0
    /\ fsFrames = [inst \in Runs |-> {}]
    /\ fsOutput = [inst \in Runs |-> FALSE]
    /\ runs = [r \in Runs |-> IdleRun]
    /\ downloads = {}

InitHistory ==
    /\ pastStates = <<>>
    /\ futureStates = <<>>

\* playbackStore.ts 31-32: playbackRate: 1, loopEnabled: false
InitShuttle ==
    /\ playbackRate = 1
    /\ loopEnabled = FALSE

InitTimeline ==
    /\ dragMode = "null"
    /\ dragId = 0
    /\ dragStartRef = [startTime |-> 0, duration |-> 0, trimIn |-> 0]
    /\ snapEnabled = TRUE
    /\ timelineZoom = 80
    /\ timelineTool = "select"
    /\ drags = 0

Init ==
    /\ InitStore
    /\ InitPlayback
    /\ InitRender
    /\ duration = 3600
    /\ InitExport
    /\ InitHistory
    /\ InitTimeline
    /\ InitShuttle

(***************************************************************************)
(* Spec: the element store under its own operations.                       *)
(***************************************************************************)
otherThanStore ==
    <<regions, applied, analyzing, currentTime, isPlaying, previewOut, prevPreview,
      exportFrame, duration, settingsFps, dialogProgress, error, abortRef, ffmpegInstance,
      fsFrames, fsOutput, runs, downloads,
      historyVars, timelineVars, shuttleVars>>

StoreAdd ==
    /\ \E type \in AddTypes, st \in AddStartTimes :
          Len(elements) < MaxElements /\ AddElement(type, st)
    /\ UNCHANGED otherThanStore

StoreUpdate ==
    /\ \E id \in Ids(elements), patch \in Patches : UpdateElement(id, patch)
    /\ UNCHANGED otherThanStore

StoreDelete ==
    /\ \E id \in Ids(elements) : DeleteElements({id})
    /\ UNCHANGED otherThanStore

StoreSelect ==
    /\ \E id \in Ids(elements), additive \in BOOLEAN : SelectElement(id, additive)
    /\ UNCHANGED otherThanStore

\* deleteElements([...selectedIds]) (Delete key) with several clips selected
StoreDeleteSelected ==
    /\ Cardinality(selectedIds) >= 2
    /\ DeleteElements(selectedIds)
    /\ UNCHANGED otherThanStore

Next ==
    \/ StoreAdd
    \/ StoreUpdate
    \/ StoreDelete
    \/ StoreDeleteSelected
    \/ StoreSelect

Spec == Init /\ [][Next]_vars

(***************************************************************************)
(* SpecAutoCut: the editing session with the auto-cut panel open: clips    *)
(* are added, slipped (trimIn patched), selected, deleted, analysed and    *)
(* materialized.                                                           *)
(***************************************************************************)
SlipPatches == { [trimIn |-> 60] }

otherThanAutoCut ==
    <<currentTime, isPlaying, previewOut, prevPreview, exportFrame, duration,
      settingsFps, dialogProgress, error, abortRef, ffmpegInstance, fsFrames, fsOutput,
      runs, downloads,
      historyVars, timelineVars, shuttleVars>>

AutoCutSlip ==
    /\ \E id \in MediaIds(elements), patch \in SlipPatches : UpdateElement(id, patch)
    /\ UNCHANGED otherThanStore

AutoCutAnalyzeStart == HandleAnalyzeStart /\ UNCHANGED otherThanAutoCut

AutoCutAnalyzeDone ==
    /\ \E rs \in RegionLists : HandleAnalyzeDone(rs)
    /\ UNCHANGED otherThanAutoCut

AutoCutAnalyzeFailed == HandleAnalyzeFailed /\ UNCHANGED otherThanAutoCut

AutoCutApply == HandleApply /\ UNCHANGED otherThanAutoCut

AutoCutReset == ResetRegions /\ UNCHANGED otherThanAutoCut

NextAutoCut ==
    \/ StoreAdd
    \/ AutoCutSlip
    \/ StoreDelete
    \/ StoreSelect
    \/ AutoCutAnalyzeStart
    \/ AutoCutAnalyzeDone
    \/ AutoCutAnalyzeFailed
    \/ AutoCutApply
    \/ AutoCutReset

SpecAutoCut == Init /\ [][NextAutoCut]_vars

(***************************************************************************)
(* SpecRender: the canvas.  Elements are added at the playhead and edited  *)
(* through the properties panel, the playhead moves, playback is toggled;  *)
(* the preview follows every change and the export renderer draws frames   *)
(* of the same list.                                                       *)
(***************************************************************************)
MaxRenderElements == 1
RenderTimes == {0, 60, 120, 180}
RenderPatches ==
    { [visible |-> FALSE], [duration |-> 120], [animation |-> "fadeIn"],
      [animationExit |-> "slideLeft"], [easing |-> "linear"] }
CuePatches == { [cues |-> <<[id |-> 1, startTime |-> 0, endTime |-> 60, text |-> <<"a">>]>>] }

otherThanCanvas ==
    <<regions, applied, analyzing, duration, settingsFps, dialogProgress, error, abortRef,
      ffmpegInstance, fsFrames, fsOutput, runs, downloads,
      historyVars, timelineVars, shuttleVars>>

CanvasAdd ==
    /\ \E type \in ElementTypes :
          Len(elements) < MaxRenderElements /\ AddElement(type, currentTime)
    /\ UNCHANGED playbackVars
    /\ Rerender
    /\ UNCHANGED otherThanCanvas

CanvasUpdate ==
    /\ \E id \in Ids(elements), patch \in RenderPatches : UpdateElement(id, patch)
    /\ UNCHANGED playbackVars
    /\ Rerender
    /\ UNCHANGED otherThanCanvas

CanvasSetCues ==
    /\ \E k \in 1..Len(elements), patch \in CuePatches :
          elements[k].type = "subtitle" /\ UpdateElement(elements[k].id, patch)
    /\ UNCHANGED playbackVars
    /\ Rerender
    /\ UNCHANGED otherThanCanvas

CanvasSeek ==
    /\ \E time \in RenderTimes : SetCurrentTime(time)
    /\ UNCHANGED storeVars
    /\ Rerender
    /\ UNCHANGED otherThanCanvas

CanvasTogglePlay ==
    /\ TogglePlay
    /\ UNCHANGED storeVars
    /\ Rerender
    /\ UNCHANGED otherThanCanvas

CanvasExportFrame ==
    /\ \E time \in RenderTimes, loadOk \in BOOLEAN : RenderExportFrame(time, loadOk)
    /\ UNCHANGED <<storeVars, playbackVars>>
    /\ UNCHANGED otherThanCanvas

NextRender ==
    \/ CanvasAdd
    \/ CanvasUpdate
    \/ CanvasSetCues
    \/ CanvasSeek
    \/ CanvasTogglePlay
    \/ CanvasExportFrame

SpecRender == Init /\ [][NextRender]_vars

(***************************************************************************)
(* SpecExport: the export dialog on a project that holds one video clip    *)
(* dropped at the start of the timeline or two ticks later, slipped or     *)
(* not, and lasts ExportDuration.                                          *)
(***************************************************************************)
ExportDuration == 6

ExportProjects ==
    { <<Merge(createVideoElement(1, [src |-> "blob", startTime |-> st,
                                     duration |-> 1200, trimOut |-> 1200]),
              [trimIn |-> ti])>> : st \in {0, 2}, ti \in {0, 60} }

InitExportSession ==
    /\ elements \in ExportProjects
    /\ selectedIds = {}
    /\ nextUid = 2
    /\ regions = NullRegions
    /\ applied = FALSE
    /\ analyzing = FALSE
    /\ InitPlayback
    /\ InitRender
    /\ duration = ExportDuration
    /\ InitExport
    /\ InitHistory
    /\ InitTimeline
    /\ InitShuttle

otherThanExport ==
    <<elements, selectedIds, nextUid, regions, applied, analyzing, currentTime,
      isPlaying, previewOut, prevPreview, exportFrame,
      historyVars, timelineVars, shuttleVars>>

ExportStart == HandleExport /\ UNCHANGED otherThanExport
ExportLoadDone == (\E r \in Runs : LoadDone(r)) /\ UNCHANGED otherThanExport
ExportPreloadDone == (\E r \in Runs : PreloadDone(r)) /\ UNCHANGED otherThanExport
ExportFrameBegin == (\E r \in Runs : FrameBegin(r)) /\ UNCHANGED otherThanExport
ExportSeekDone ==
    (\E r \in Runs : \E id \in runs[r].pending : SeekDone(r, id)) /\ UNCHANGED otherThanExport
ExportFrameRender == (\E r \in Runs : FrameRender(r)) /\ UNCHANGED otherThanExport
ExportWriteBegin == (\E r \in Runs : WriteBegin(r)) /\ UNCHANGED otherThanExport
ExportWriteDone == (\E r \in Runs : WriteDone(r)) /\ UNCHANGED otherThanExport
ExportExecDone == (\E r \in Runs : ExecDone(r)) /\ UNCHANGED otherThanExport
ExportExecFail == (\E r \in Runs : ExecFail(r)) /\ UNCHANGED otherThanExport
ExportReadDone == (\E r \in Runs : ReadDone(r)) /\ UNCHANGED otherThanExport
ExportReadFail == (\E r \in Runs : ReadFail(r)) /\ UNCHANGED otherThanExport
ExportCleanupStep == (\E r \in Runs : CleanupStep(r)) /\ UNCHANGED otherThanExport
ExportCleanupFinish == (\E r \in Runs : CleanupFinish(r)) /\ UNCHANGED otherThanExport
ExportCancel == HandleCancel /\ UNCHANGED otherThanExport
ExportClose == HandleClose /\ UNCHANGED otherThanExport
ExportSetFps == (\E fps \in ExportFps : SetFps(fps)) /\ UNCHANGED otherThanExport

NextExport ==
    \/ ExportStart
    \/ ExportLoadDone
    \/ ExportPreloadDone
    \/ ExportFrameBegin
    \/ ExportSeekDone
    \/ ExportFrameRender
    \/ ExportWriteBegin
    \/ ExportWriteDone
    \/ ExportExecDone
    \/ ExportExecFail
    \/ ExportReadDone
    \/ ExportReadFail
    \/ ExportCleanupStep
    \/ ExportCleanupFinish
    \/ ExportCancel
    \/ ExportClose
    \/ ExportSetFps

SpecExport == InitExportSession /\ [][NextExport]_vars

(***************************************************************************)
(* SpecTimeline: dragging on the timeline panel.  Video clips are dropped, *)
(* a text is added at the playhead, clips are dragged by the body and by   *)
(* the trim handles with the select and slip tools; the playhead, snapping *)
(* and the zoom change.                                                    *)
(***************************************************************************)
DropXs == {0, 80}
ScrubXs == {0, 80}
DeltaXs == {-40, 0, 40, 886}
BladeXs == {2, 40, 400}
TimelineZooms == {60, 80}

otherThanTimeline ==
    <<regions, applied, analyzing, isPlaying, previewOut, prevPreview, exportFrame,
      duration, settingsFps, dialogProgress, error, abortRef, ffmpegInstance,
      fsFrames, fsOutput, runs, downloads, historyVars, shuttleVars>>

TimelineDropVideo ==
    /\ \E x \in DropXs : Len(elements) < MaxElements /\ TimelineDrop(x)
    /\ UNCHANGED <<currentTime, snapEnabled, timelineZoom, timelineTool>>
    /\ UNCHANGED otherThanTimeline

TimelineAddText ==
    /\ Len(elements) < MaxElements
    /\ AddElement("text", currentTime)
    /\ UNCHANGED <<currentTime, timelineVars>>
    /\ UNCHANGED otherThanTimeline

TimelineClipMouseDown ==
    /\ \E id \in Ids(elements), handle \in HandleModes, x \in BladeXs :
          ClipMouseDown(id, handle, x)
    /\ UNCHANGED <<currentTime, snapEnabled, timelineZoom, timelineTool>>
    /\ UNCHANGED otherThanTimeline

TimelineDrag ==
    /\ \E deltaX \in DeltaXs : TimelineMouseMove(deltaX)
    /\ UNCHANGED <<currentTime, snapEnabled, timelineZoom, timelineTool>>
    /\ UNCHANGED otherThanTimeline

TimelineRelease ==
    /\ TimelineMouseUp
    /\ UNCHANGED <<currentTime, snapEnabled, timelineZoom, timelineTool>>
    /\ UNCHANGED otherThanTimeline

TimelineSplit ==
    /\ splitAtPlayhead
    /\ UNCHANGED <<currentTime, snapEnabled, timelineZoom, timelineTool>>
    /\ UNCHANGED otherThanTimeline

TimelineKeyQ ==
    /\ KeyQ
    /\ UNCHANGED <<currentTime, snapEnabled, timelineZoom, timelineTool>>
    /\ UNCHANGED otherThanTimeline

TimelineKeyW ==
    /\ KeyW
    /\ UNCHANGED <<currentTime, snapEnabled, timelineZoom, timelineTool>>
    /\ UNCHANGED otherThanTimeline

TimelineScrub ==
    /\ \E x \in ScrubXs : Scrub(x)
    /\ UNCHANGED <<storeVars, timelineVars>>
    /\ UNCHANGED otherThanTimeline

\* useTimelineStore.toggleSnap
TimelineToggleSnap ==
    /\ snapEnabled' = ~snapEnabled
    /\ UNCHANGED <<storeVars, currentTime, dragMode, dragId, dragStartRef, timelineZoom,
                   timelineTool, drags>>
    /\ UNCHANGED otherThanTimeline

TimelineZoom ==
    /\ \E z \in TimelineZooms : SetTimelineZoom(z)
    /\ UNCHANGED <<storeVars, currentTime, dragMode, dragId, dragStartRef, snapEnabled,
                   timelineTool, drags>>
    /\ UNCHANGED otherThanTimeline

\* useUIStore.setTimelineTool
SetTimelineTool(tool) == timelineTool' = tool

TimelineSetTool ==
    /\ \E tool \in DragTools : SetTimelineTool(tool)
    /\ UNCHANGED <<storeVars, currentTime, dragMode, dragId, dragStartRef, snapEnabled,
                   timelineZoom, drags>>
    /\ UNCHANGED otherThanTimeline

NextTimeline ==
    \/ TimelineDropVideo
    \/ TimelineAddText
    \/ TimelineClipMouseDown
    \/ TimelineDrag
    \/ TimelineRelease
    \/ TimelineScrub
    \/ TimelineToggleSnap
    \/ TimelineZoom
    \/ TimelineSetTool

SpecTimeline == Init /\ [][NextTimeline]_vars

(***************************************************************************)
(* SpecBlade: cutting on the timeline panel.  Video clips are dropped, a   *)
(* text is added at the playhead, clips are selected, cut with the blade   *)
(* tool, split at the playhead and trimmed to it with Q and W.             *)
(***************************************************************************)
BladeSetTool ==
    /\ timelineTool # "blade"
    /\ SetTimelineTool("blade")
    /\ UNCHANGED <<storeVars, currentTime, dragMode, dragId, dragStartRef, snapEnabled,
                   timelineZoom, drags>>
    /\ UNCHANGED otherThanTimeline

BladeClick ==
    /\ timelineTool = "blade"
    /\ \E id \in Ids(elements), handle \in HandleModes, x \in BladeXs :
          ClipMouseDown(id, handle, x)
    /\ UNCHANGED <<currentTime, snapEnabled, timelineZoom, timelineTool>>
    /\ UNCHANGED otherThanTimeline

BladeSelect ==
    /\ \E id \in Ids(elements), additive \in BOOLEAN : SelectElement(id, additive)
    /\ UNCHANGED <<currentTime, timelineVars>>
    /\ UNCHANGED otherThanTimeline

NextBlade ==
    \/ TimelineDropVideo
    \/ TimelineAddText
    \/ BladeSetTool
    \/ BladeClick
    \/ BladeSelect
    \/ TimelineSplit
    \/ TimelineKeyQ
    \/ TimelineKeyW
    \/ TimelineScrub

SpecBlade == Init /\ [][NextBlade]_vars

(***************************************************************************)
(* SpecRipple: trimming with the ripple tool.  Video clips are dropped and *)
(* cut with the blade, so that the halves share a track; with the ripple   *)
(* tool a clip is dragged by its body or a trim handle.                    *)
(***************************************************************************)
RippleSetTool ==
    /\ timelineTool # "ripple"
    /\ SetTimelineTool("ripple")
    /\ UNCHANGED <<storeVars, currentTime, dragMode, dragId, dragStartRef, snapEnabled,
                   timelineZoom, drags>>
    /\ UNCHANGED otherThanTimeline

RippleMouseDown ==
    /\ timelineTool = "ripple"
    /\ \E id \in Ids(elements), handle \in HandleModes, x \in BladeXs :
          ClipMouseDown(id, handle, x)
    /\ UNCHANGED <<currentTime, snapEnabled, timelineZoom, timelineTool>>
    /\ UNCHANGED otherThanTimeline

NextRipple ==
    \/ TimelineDropVideo
    \/ BladeSetTool
    \/ BladeClick
    \/ RippleSetTool
    \/ RippleMouseDown
    \/ TimelineDrag
    \/ TimelineRelease
    \/ TimelineToggleSnap

SpecRipple == Init /\ [][NextRipple]_vars

(***************************************************************************)
(* C1: after any sequence of updateElement(id, patch) calls, every element *)
(* of the list has duration >= 0.1 s and startTime >= 0.                   *)
(***************************************************************************)
C1_DurationFloor ==
    \A i \in 1..Len(elements) :
        elements[i].duration >= MinDuration /\ elements[i].startTime >= 0

(***************************************************************************)
(* C2: an element is drawn at time T if and only if it is visible and      *)
(* startTime <= T < startTime + duration, in the live preview (whatever    *)
(* the playback state) and in the export renderer.  Stated for the element *)
(* types the renderer draws itself and, in the export, for media whose     *)
(* asset is loaded.                                                        *)
(***************************************************************************)
DrawnIds(out) == {d.id : d \in out.drawn}

C2_DrawnIffInWindow ==
    /\ \A i \in 1..Len(elements) :
          elements[i].type \in {"text", "shape", "circle", "image", "video"} =>
             (elements[i].id \in DrawnIds(previewOut)
                <=> (elements[i].visible /\ isInTime(elements[i], currentTime)))
    /\ exportFrame.valid =>
          \A i \in 1..Len(elements) :
             (\/ elements[i].type \in {"text", "shape", "circle"}
              \/ elements[i].id \in exportFrame.assets) =>
                (elements[i].id \in DrawnIds(exportFrame.out)
                   <=> (elements[i].visible /\ isInTime(elements[i], exportFrame.time)))

(***************************************************************************)
(* C3: for the same element list and the same time, the live preview and   *)
(* the export renderer produce the same output: the same drawn elements    *)
(* with the same effective opacity and transform, and the same active      *)
(* subtitle cues.                                                          *)
(***************************************************************************)
C3_PreviewEqualsExport ==
    (exportFrame.valid /\ exportFrame.time = currentTime) =>
        exportFrame.out = previewOut

(***************************************************************************)
(* C4: rendering is a pure function of (elements, time): two renders of    *)
(* the same list at the same time give the same output, whatever changed   *)
(* in the rest of the application state in between.                        *)
(***************************************************************************)
C4_RenderIsPure ==
    (prevPreview.valid /\ prevPreview.time = currentTime) =>
        prevPreview.out = previewOut

(***************************************************************************)
(* C5: an export that runs to completion hands the encoder exactly         *)
(* ceil(N * fps) frames, in increasing index order, frame i being the one  *)
(* the run rendered at time i / fps.                                       *)
(***************************************************************************)
C5_EncoderGetsExactFrames ==
    \A r \in Runs :
        runs[r].pc = "resolved" =>
            /\ Len(runs[r].encInput) = TotalFrames(duration, runs[r].fps)
            /\ \A k \in 1..Len(runs[r].encInput) :
                  /\ runs[r].encInput[k].idx = k - 1
                  /\ runs[r].encInput[k].time = FrameTime(k - 1, runs[r].fps)

(***************************************************************************)
(* C6: once a run whose abort signal was raised has settled, no frame file *)
(* written by that run remains in the file system of its encoder.          *)
(***************************************************************************)
C6_CancelLeavesNoFrames ==
    \A r \in Runs :
        (Settled(r) /\ runs[r].aborted) =>
            ~ \E f \in fsFrames[runs[r].inst] : f.run = r

(***************************************************************************)
(* C7: once the abort signal of a run is raised, the run does not invoke   *)
(* the encoder and does not resolve with a blob that is downloaded.        *)
(***************************************************************************)
C7_NoEncodeNoBlobAfterAbort ==
    [][ \A r \in Runs :
          runs[r].aborted =>
              /\ (runs'[r].pc = "executing" => runs[r].pc = "executing")
              /\ (runs'[r].pc = "resolved" => runs[r].pc = "resolved")
              /\ (r \in downloads' => r \in downloads) ]_vars

(***************************************************************************)
(* C8: when exportProject has rejected because ffmpeg.exec or              *)
(* ffmpeg.readFile threw, no frame file written by that run remains.       *)
(***************************************************************************)
C8_EncoderFailureCleansUp ==
    \A r \in Runs :
        (runs[r].pc = "rejected" /\ runs[r].err \in {"encoder", "read"}) =>
            ~ \E f \in fsFrames[runs[r].inst] : f.run = r

(***************************************************************************)
(* C9: every captured frame shows each visible video that is active at the *)
(* frame's time at exactly trimIn + (T - startTime) * playbackRate, and no *)
(* frame is captured while a seek is in flight.                            *)
(***************************************************************************)
C9_FramesShowExactSourceTime ==
    \A r \in Runs :
        /\ \A k \in 1..Len(runs[r].frameData) :
              \A v \in runs[r].frameData[k].shown : v.at = v.want
        /\ (runs[r].pc \in {"frame", "write"} => runs[r].pending = {})

(***************************************************************************)
(* C10: region materialization with the keep (speech) regions r_1..r_n on  *)
(* the selected source replaces the source by exactly n elements in region *)
(* order; element i lasts end_i - start_i, starts at the source's start    *)
(* plus the durations of elements 1..i-1, and has trimIn = source.trimIn + *)
(* start_i, trimOut = source.trimIn + end_i; the source id is gone and the *)
(* other elements are untouched.                                           *)
(***************************************************************************)
C10_Materialization ==
    [][ (~applied /\ applied') =>
          LET src == selectedEl
              rs  == SpeechOnly(regions.list)
              n   == Len(rs)
              m   == Len(elements) - 1
              new == [i \in 1..n |-> elements'[m + i]]
          IN  /\ n >= 1
              /\ Len(elements') = m + n
              /\ src.id \notin Ids(elements')
              /\ SubSeq(elements', 1, m) = Filter(elements, {src.id})
              /\ \A i \in 1..n :
                    /\ new[i].id \notin Ids(elements)
                    /\ \A j \in 1..n : new[i].id = new[j].id => i = j
                    /\ new[i].type = src.type
                    /\ new[i].duration = rs[i].end - rs[i].start
                    /\ new[i].startTime =
                         src.startTime + SumSeq([j \in 1..(i - 1) |-> new[j].duration])
                    /\ new[i].trimIn = src.trimIn + rs[i].start
                    /\ new[i].trimOut = src.trimIn + rs[i].end
      ]_vars

\* a source with a non-zero trimIn was replaced by two clips
C10_Witness ==
    /\ applied
    /\ Len(elements) >= 2
    /\ elements[Len(elements)].trimIn > elements[Len(elements)].startTime + 60
    /\ elements[Len(elements)].startTime > elements[Len(elements) - 1].startTime

(***************************************************************************)
(* C20: after deleteElements(ids) no element whose id is in ids is in the  *)
(* list and none of those ids is in selectedIds.                           *)
(***************************************************************************)
C20_DeleteRemovesIds ==
    [][ \A ids \in SUBSET Ids(elements) :
          DeleteElements(ids) =>
              /\ \A k \in 1..Len(elements') : elements'[k].id \notin ids
              /\ selectedIds' \cap ids = {} ]_vars

\* two clips have been deleted, one clip is left and still selected
C20_Witness ==
    /\ Len(elements) = 1
    /\ nextUid - 1 >= Len(elements) + 2
    /\ selectedIds = Ids(elements)

(***************************************************************************)
(* C12: with snapping enabled, a move step whose start max(0, refStart +   *)
(* delta) lies strictly within the snap threshold of the end edge of       *)
(* another element, and is snapped to that edge, leaves the dragged        *)
(* element's startTime exactly on that edge.                               *)
(***************************************************************************)
C12_MoveSnapsStartToEdge ==
    [][ \A dx \in DeltaXs : \A k \in 1..Len(elements) :
          LET rawStart == Max(0, dragStartRef.startTime + pxToTime(dx))
              edge == elements[k].startTime + elements[k].duration
          IN  ( /\ dragMode = "move"
                /\ snapEnabled
                /\ TimelineMouseMove(dx)
                /\ elements[k].id # dragId
                /\ Abs(rawStart - edge) < pxToTime(SnapThresholdPx)
                /\ snapTime(rawStart, dragId) = edge )
              => ElementById(elements', dragId).startTime = edge ]_vars

(***************************************************************************)
(* C13: snapTime(t, excludeId) returns the candidate nearest to t among    *)
(* those strictly within the threshold: the playhead, the start and end    *)
(* edges of every element other than excludeId, and the nearest whole      *)
(* second.  Of equally near candidates the playhead wins over clip edges   *)
(* and clip edges win over the whole second; with no candidate within the  *)
(* threshold, or with snapping disabled, t is returned unchanged.          *)
(***************************************************************************)
SnapEdges(excludeId) ==
    UNION { {elements[k].startTime, elements[k].startTime + elements[k].duration} :
              k \in {j \in 1..Len(elements) : elements[j].id # excludeId} }

SnapCandidates(t, excludeId) == {currentTime, NearestSecond(t)} \cup SnapEdges(excludeId)

SnapNear(t, excludeId) ==
    {c \in SnapCandidates(t, excludeId) : Abs(t - c) < pxToTime(SnapThresholdPx)}

SnapNearest(t, excludeId) ==
    {c \in SnapNear(t, excludeId) : \A d \in SnapNear(t, excludeId) : Abs(t - c) <= Abs(t - d)}

SnapAnswerIsRight(t, excludeId, r) ==
    IF ~snapEnabled \/ SnapNear(t, excludeId) = {} THEN r = t
    ELSE IF currentTime \in SnapNearest(t, excludeId) THEN r = currentTime
    ELSE IF SnapNearest(t, excludeId) \cap SnapEdges(excludeId) # {}
         THEN r \in SnapNearest(t, excludeId) \cap SnapEdges(excludeId)
    ELSE r = NearestSecond(t)

SnapProbeOffsets == {-16, -12, -11, -3, 0, 3, 11, 12, 16}

SnapProbes ==
    LET bases == {currentTime} \cup SnapEdges(0)
    IN  {t \in {b + d : b \in bases, d \in SnapProbeOffsets}
                 \cup {(a + b) \div 2 : a \in bases, b \in bases} : t >= 0}

C13_SnapTimeNearest ==
    \A excludeId \in {0} \cup Ids(elements) : \A t \in SnapProbes :
        SnapAnswerIsRight(t, excludeId, snapTime(t, excludeId))

\* an end edge three ticks above a whole second: the edge and the second tie
C13_Witness ==
    /\ snapEnabled
    /\ \E k \in 1..Len(elements) :
          LET end == elements[k].startTime + elements[k].duration
          IN  /\ end >= 6
              /\ NearestSecond(end - 3) = end - 6
              /\ Abs((end - 3) - currentTime) > 3
              /\ snapTime(end - 3, 0) = end

(***************************************************************************)
(* C14: with snapping disabled, a trim-left by a pointer delta followed by *)
(* the inverse trim back to the original pointer position restores the    *)
(* element's (startTime, duration, trimIn) exactly, for every element and  *)
(* every delta, both when the two trims are steps of one drag (the same    *)
(* dragStartRef) and when they are two successive drags (dragStartRef      *)
(* taken again by the second mouse down).                                  *)
(***************************************************************************)
TrimTriple(el) == <<el.startTime, el.duration, TrimInOr0(el)>>

C14_TrimLeftRoundTrip ==
    ~snapEnabled =>
        \A k \in 1..Len(elements) : \A dx \in DeltaXs :
            LET el == elements[k]
                ref == DragStartOf(el)
                there == TrimLeftStep(el, ref, pxToTime(dx))
                backSameDrag == TrimLeftStep(there, ref, pxToTime(0))
                backNewDrag == TrimLeftStep(there, DragStartOf(there), pxToTime(-dx))
            IN  /\ TrimTriple(backSameDrag) = TrimTriple(el)
                /\ TrimTriple(backNewDrag) = TrimTriple(el)

(***************************************************************************)
(* C17: in every trim-left drag step the element's end edge stays fixed    *)
(* (startTime + duration = refStart + refDuration), and for video/audio    *)
(* elements trimIn moves by exactly the same delta as startTime            *)
(* (trimIn = refTrimIn + (startTime - refStart)).                          *)
(***************************************************************************)
C17_TrimLeftKeepsEndAndSource ==
    [][ \A dx \in DeltaXs :
          (dragMode = "trim-left" /\ TimelineMouseMove(dx)) =>
              LET el == ElementById(elements', dragId)
              IN  /\ el.startTime + el.duration
                        = dragStartRef.startTime + dragStartRef.duration
                  /\ IsMedia(el) =>
                        el.trimIn = dragStartRef.trimIn
                                      + (el.startTime - dragStartRef.startTime) ]_vars

(***************************************************************************)
(* C18: in a move drag step with snapping enabled, whenever snapping moves *)
(* the element's end edge to a snap target S (snapTime of the snapped      *)
(* start plus the duration differs from it), the stored startTime is such  *)
(* that startTime + duration = S exactly.                                  *)
(***************************************************************************)
C18_MoveEndLandsOnTarget ==
    [][ \A dx \in DeltaXs :
          LET el == ElementById(elements, dragId)
              newStart == snapTime(Max(0, dragStartRef.startTime + pxToTime(dx)), dragId)
              S == snapTime(newStart + el.duration, dragId)
              after == ElementById(elements', dragId)
          IN  ( /\ dragMode = "move"
                /\ snapEnabled
                /\ TimelineDrag
                /\ TimelineMouseMove(dx)
                /\ S # newStart + el.duration )
              => after.startTime + after.duration = S ]_vars

(***************************************************************************)
(* C19: for every video/audio element 0 <= trimIn <= trimOut holds after   *)
(* every mutation reachable from the editing operations (slip, trim-left,  *)
(* blade/split, Q trim-to-playhead, region materialization).               *)
(***************************************************************************)
C19_TrimInWithinSource ==
    \A k \in 1..Len(elements) :
        IsMedia(elements[k]) =>
            /\ 0 <= elements[k].trimIn
            /\ elements[k].trimIn <= elements[k].trimOut

(***************************************************************************)
(* C16: a blade click (or split-at-playhead) at time t strictly inside an  *)
(* element's window sets that element's duration to t - startTime and      *)
(* appends one new element cloned from it with startTime = t, duration =   *)
(* refDuration - (t - refStart) and, for video/audio, trimIn advanced by   *)
(* t - refStart, so the two durations sum to the original duration and the *)
(* second half starts where the first ends.                                *)
(***************************************************************************)
StrictlyInside(el, t) == t > el.startTime /\ t < el.startTime + el.duration

\* elements' holds el cut at t: the first half in place, the clone appended
CutInTwo(el, t) ==
    LET first == ElementById(elements', el.id)
    IN  /\ first = Merge(el, [duration |-> t - el.startTime])
        /\ \E j \in (Len(elements) + 1)..Len(elements') :
              LET second == elements'[j]
                  back == [id |-> el.id, startTime |-> el.startTime,
                           duration |-> el.duration]
              IN  /\ second.id \notin Ids(elements)
                  /\ second.startTime = t
                  /\ second.duration = el.duration - (t - el.startTime)
                  /\ IF IsMedia(el)
                     THEN /\ second.trimIn = TrimInOr0(el) + (t - el.startTime)
                          /\ Merge(Merge(second, back), [trimIn |-> el.trimIn]) = el
                     ELSE Merge(second, back) = el
                  /\ first.duration + second.duration = el.duration
                  /\ second.startTime = first.startTime + first.duration

C16_CutSplitsInTwo ==
    [][ /\ \A id \in Ids(elements), handle \in HandleModes, x \in BladeXs :
             ( /\ BladeClick
               /\ ClipMouseDown(id, handle, x)
               /\ StrictlyInside(ElementById(elements, id), pxToTime(x)) )
             => /\ CutInTwo(ElementById(elements, id), pxToTime(x))
                /\ Len(elements') = Len(elements) + 1
        /\ TimelineSplit =>
             LET cut == {id \in selectedIds :
                           StrictlyInside(ElementById(elements, id), currentTime)}
             IN  /\ \A id \in cut : CutInTwo(ElementById(elements, id), currentTime)
                 /\ Len(elements') = Len(elements) + Cardinality(cut) ]_vars

\* a video cut in two: the second half starts at the first's end with trimIn advanced
C16_Witness ==
    \E i, j \in 1..Len(elements) :
        /\ i < j
        /\ elements[i].type = "video"
        /\ elements[j].type = "video"
        /\ elements[j].startTime = elements[i].startTime + elements[i].duration
        /\ elements[i].duration + elements[j].duration = AssetDuration
        /\ elements[j].trimIn = elements[i].trimIn + elements[i].duration
        /\ elements[j].trimIn > 0

(***************************************************************************)
(* create()(temporal(...)) of useElementStore: the undo history.  Every    *)
(* set of the store whose result differs from the state before it (by the  *)
(* equality option: JSON of elements) records the state before it in       *)
(* pastStates, at most limit entries, and clears futureStates; undo and    *)
(* redo move one entry between the two lists and the store.                *)
(***************************************************************************)
HistoryLimit == 50

StoreState == [elements |-> elements, selectedIds |-> selectedIds]

\* the last n entries of a list
LastN(s, n) == IF Len(s) <= n THEN s ELSE SubSeq(s, Len(s) - n + 1, Len(s))

\* one set of the store, from state before to state after
HandleSet(past, before, after) ==
    IF before.elements = after.elements THEN past
    ELSE LastN(Append(past, before), HistoryLimit)

\* successive sets of the store: afters are the states after each set
RECURSIVE RecordSets(_, _, _)
RecordSets(past, before, afters) ==
    IF afters = <<>> THEN past
    ELSE RecordSets(HandleSet(past, before, Head(afters)), Head(afters), Tail(afters))

\* the history after a handler whose sets produced afters, the last one the new state
Recorded(afters) ==
    /\ pastStates' = RecordSets(pastStates, StoreState, afters)
    /\ futureStates' = IF pastStates' = pastStates THEN futureStates ELSE <<>>

\* temporal.getState().undo()
Undo ==
    /\ pastStates # <<>>
    /\ elements' = pastStates[Len(pastStates)].elements
    /\ selectedIds' = pastStates[Len(pastStates)].selectedIds
    /\ pastStates' = SubSeq(pastStates, 1, Len(pastStates) - 1)
    /\ futureStates' = Append(futureStates, StoreState)
    /\ UNCHANGED nextUid

\* temporal.getState().redo()
Redo ==
    /\ futureStates # <<>>
    /\ elements' = futureStates[Len(futureStates)].elements
    /\ selectedIds' = futureStates[Len(futureStates)].selectedIds
    /\ futureStates' = SubSeq(futureStates, 1, Len(futureStates) - 1)
    /\ pastStates' = Append(pastStates, StoreState)
    /\ UNCHANGED nextUid

\* handleApply: the store states after deleteElements and after each addElement
ApplySets ==
    LET origEl == selectedEl
        clips == Materialize(origEl, SpeechOnly(regions.list), origEl.startTime, nextUid)
        rest == deleteElementsFrom(elements, {origEl.id})
    IN  [i \in 1..(Len(clips) + 1) |->
            [elements |-> rest \o SubSeq(clips, 1, i - 1),
             selectedIds |-> selectedIds \ {origEl.id}]]

(***************************************************************************)
(* SpecUndo: the editing session with the undo history.  Clips are added,  *)
(* selected, deleted, analysed and materialized; edits are undone and      *)
(* redone.                                                                 *)
(***************************************************************************)
otherThanUndo ==
    <<currentTime, isPlaying, previewOut, prevPreview, exportFrame, duration,
      settingsFps, dialogProgress, error, abortRef, ffmpegInstance, fsFrames, fsOutput,
      runs, downloads, timelineVars, shuttleVars>>

UndoAddTypes == {"video", "text"}

UndoAdd ==
    /\ \E type \in UndoAddTypes :
          Len(elements) < MaxElements /\ AddElement(type, 0)
    /\ Recorded(<<[elements |-> elements', selectedIds |-> selectedIds']>>)
    /\ UNCHANGED <<regions, applied, analyzing>>
    /\ UNCHANGED otherThanUndo

UndoSelect ==
    /\ \E id \in Ids(elements) : SelectElement(id, FALSE)
    /\ Recorded(<<[elements |-> elements', selectedIds |-> selectedIds']>>)
    /\ UNCHANGED <<regions, applied, analyzing>>
    /\ UNCHANGED otherThanUndo

UndoDelete ==
    /\ selectedIds # {}
    /\ DeleteElements(selectedIds)
    /\ Recorded(<<[elements |-> elements', selectedIds |-> selectedIds']>>)
    /\ UNCHANGED <<regions, applied, analyzing>>
    /\ UNCHANGED otherThanUndo

UndoAnalyzeStart == HandleAnalyzeStart /\ UNCHANGED historyVars /\ UNCHANGED otherThanUndo

UndoAnalyzeDone ==
    /\ \E rs \in RegionLists : HandleAnalyzeDone(rs)
    /\ UNCHANGED historyVars
    /\ UNCHANGED otherThanUndo

UndoApply ==
    /\ HandleApply
    /\ Recorded(ApplySets)
    /\ UNCHANGED otherThanUndo

UndoUndo ==
    /\ Undo
    /\ UNCHANGED <<regions, applied, analyzing>>
    /\ UNCHANGED otherThanUndo

UndoRedo ==
    /\ Redo
    /\ UNCHANGED <<regions, applied, analyzing>>
    /\ UNCHANGED otherThanUndo

NextUndo ==
    \/ UndoAdd
    \/ UndoSelect
    \/ UndoDelete
    \/ UndoAnalyzeStart
    \/ UndoAnalyzeDone
    \/ UndoApply
    \/ UndoUndo
    \/ UndoRedo

SpecUndo == Init /\ [][NextUndo]_vars

(***************************************************************************)
(* C11: region materialization is atomic with respect to undo: applying it *)
(* adds exactly one entry to the undo history, and the entry a single undo *)
(* restores is the element list before the operation (the source element   *)
(* present, none of the new elements).                                     *)
(***************************************************************************)
C11_ApplyIsOneUndoEntry ==
    [][ UndoApply =>
          /\ Len(pastStates') = Len(pastStates) + 1
          /\ pastStates'[Len(pastStates')].elements = elements ]_vars

(***************************************************************************)
(* LowerThirdOverlay.tsx: the cue list editor.  A cue text is the sequence *)
(* of its characters; split(' '), slice and join(' ') are computed on it.  *)
(* Cue times are in ticks.                                                 *)
(***************************************************************************)
\* text.split(' ')
RECURSIVE SplitWords(_)
SplitWords(text) ==
    IF \A i \in 1..Len(text) : text[i] # " " THEN <<text>>
    ELSE LET i == CHOOSE j \in 1..Len(text) :
                      text[j] = " " /\ \A h \in 1..(j - 1) : text[h] # " "
         IN  <<SubSeq(text, 1, i - 1)>> \o SplitWords(SubSeq(text, i + 1, Len(text)))

\* words.join(' ')
RECURSIVE JoinWords(_)
JoinWords(words) ==
    IF words = <<>> THEN <<>>
    ELSE IF Len(words) = 1 THEN words[1]
    ELSE words[1] \o <<" ">> \o JoinWords(Tail(words))

\* 'New subtitle'
NewSubtitleText == <<"N", "e", "w", " ", "s", "u", "b", "t", "i", "t", "l", "e">>

\* endTime: currentTime + 3
NewCueLength == 360

\* the first subtitle element that is selected, or else the first subtitle element
ActiveIdx ==
    LET subs == {i \in 1..Len(elements) : elements[i].type = "subtitle"}
        sel == {i \in subs : elements[i].id \in selectedIds}
    IN  IF sel # {} THEN {CHOOSE i \in sel : \A j \in sel : i <= j}
        ELSE IF subs # {} THEN {CHOOSE i \in subs : \A j \in subs : i <= j}
        ELSE {}

HasActive == ActiveIdx # {}

active == elements[CHOOSE i \in ActiveIdx : TRUE]

CueIds(cues) == {cues[i].id : i \in 1..Len(cues)}

CueIndex(cues, cueId) == CHOOSE i \in 1..Len(cues) : cues[i].id = cueId

\* [...cues].sort((a, b) => a.startTime - b.startTime): a stable sort
RECURSIVE SortCues(_)
SortCues(cues) ==
    IF Len(cues) <= 1 THEN cues
    ELSE LET front == SortCues(SubSeq(cues, 1, Len(cues) - 1))
             last == cues[Len(cues)]
             n == Cardinality({i \in 1..Len(front) : front[i].startTime <= last.startTime})
         IN  SubSeq(front, 1, n) \o <<last>> \o SubSeq(front, n + 1, Len(front))

\* handleSplitCue: the cue list after the split; id is the uid of the second half
splitCueIn(cues, cueId, id) ==
    LET idx == CueIndex(cues, cueId)
        cue == cues[idx]
        midTime == (cue.startTime + cue.endTime) \div 2
        words == SplitWords(cue.text)
        midWord == (Len(words) + 1) \div 2
        first == [id |-> cue.id, startTime |-> cue.startTime, endTime |-> midTime,
                  text |-> JoinWords(SubSeq(words, 1, midWord))]
        second == [id |-> id, startTime |-> midTime, endTime |-> cue.endTime,
                   text |-> JoinWords(SubSeq(words, midWord + 1, Len(words)))]
    IN  SubSeq(cues, 1, idx - 1) \o <<first, second>> \o SubSeq(cues, idx + 1, Len(cues))

\* handleMergeCues: the cue list after merging the cue with the one after it
mergeCuesIn(cues, cueId) ==
    LET idx == CueIndex(cues, cueId)
        current == cues[idx]
        next == cues[idx + 1]
        merged == [id |-> current.id, startTime |-> current.startTime,
                   endTime |-> next.endTime,
                   text |-> current.text \o <<" ">> \o next.text]
        kept == SelectSeq(cues, LAMBDA c : c.id # next.id)
    IN  [i \in 1..Len(kept) |-> IF kept[i].id = current.id THEN merged ELSE kept[i]]

MaxCueUid == 4

handleAddCue ==
    /\ IF ~HasActive
       THEN /\ nextUid + 1 <= MaxCueUid
            /\ elements' = addElementTo(elements,
                  createSubtitleElement(nextUid + 1,
                      <<[id |-> nextUid, startTime |-> currentTime,
                         endTime |-> currentTime + NewCueLength,
                         text |-> NewSubtitleText]>>, <<>>))
            /\ nextUid' = nextUid + 2
       ELSE /\ nextUid <= MaxCueUid
            /\ elements' = updateElementIn(elements, active.id,
                  [cues |-> SortCues(Append(active.cues,
                      [id |-> nextUid, startTime |-> currentTime,
                       endTime |-> currentTime + NewCueLength,
                       text |-> NewSubtitleText]))])
            /\ nextUid' = nextUid + 1
    /\ UNCHANGED selectedIds

handleUpdateCue(cueId, patch) ==
    /\ HasActive
    /\ elements' = updateElementIn(elements, active.id,
          [cues |-> [i \in 1..Len(active.cues) |->
                        IF active.cues[i].id = cueId THEN Merge(active.cues[i], patch)
                        ELSE active.cues[i]]])
    /\ UNCHANGED <<selectedIds, nextUid>>

handleDeleteCue(cueId) ==
    /\ HasActive
    /\ elements' = updateElementIn(elements, active.id,
          [cues |-> SelectSeq(active.cues, LAMBDA c : c.id # cueId)])
    /\ UNCHANGED <<selectedIds, nextUid>>

handleMergeCues(cueId) ==
    /\ HasActive
    /\ cueId \in CueIds(active.cues)
    /\ CueIndex(active.cues, cueId) < Len(active.cues)
    /\ elements' = updateElementIn(elements, active.id,
                                   [cues |-> mergeCuesIn(active.cues, cueId)])
    /\ UNCHANGED <<selectedIds, nextUid>>

handleSplitCue(cueId) ==
    /\ HasActive
    /\ cueId \in CueIds(active.cues)
    /\ nextUid <= MaxCueUid
    /\ elements' = updateElementIn(elements, active.id,
                                   [cues |-> splitCueIn(active.cues, cueId, nextUid)])
    /\ nextUid' = nextUid + 1
    /\ UNCHANGED selectedIds

(***************************************************************************)
(* services/aiEngine.ts: subtitle interchange.  A string is the sequence   *)
(* of its characters, "\n" the line break; times are in ticks, and the     *)
(* milliseconds of a time stamp are (t % 120) * 1000 / 120 rounded.        *)
(***************************************************************************)
DigitChars == <<"0", "1", "2", "3", "4", "5", "6", "7", "8", "9">>

IsDigit(c) == \E d \in 1..10 : DigitChars[d] = c

DigitOf(c) == (CHOOSE d \in 1..10 : DigitChars[d] = c) - 1

\* n.toString()
RECURSIVE NumToString(_)
NumToString(n) ==
    IF n < 10 THEN <<DigitChars[n + 1]>>
    ELSE NumToString(n \div 10) \o <<DigitChars[(n % 10) + 1]>>

\* n.toString().padStart(width, '0')
RECURSIVE PadStart(_, _)
PadStart(str, width) == IF Len(str) >= width THEN str ELSE PadStart(<<"0">> \o str, width)

pad2(n) == PadStart(NumToString(n), 2)

pad3(n) == PadStart(NumToString(n), 3)

\* formatSRTTime / formatVTTTime with the separator of the milliseconds
formatTimeWith(seconds, sep) ==
    LET h == seconds \div 432000
        m == (seconds % 432000) \div 7200
        s == (seconds % 7200) \div 120
        ms == ((seconds % 120) * 50 + 3) \div 6
    IN  pad2(h) \o <<":">> \o pad2(m) \o <<":">> \o pad2(s) \o <<sep>> \o pad3(ms)

formatSRTTime(seconds) == formatTimeWith(seconds, ",")

formatVTTTime(seconds) == formatTimeWith(seconds, ".")

\* parts.join(sep)
RECURSIVE JoinWith(_, _)
JoinWith(parts, sep) ==
    IF parts = <<>> THEN <<>>
    ELSE IF Len(parts) = 1 THEN parts[1]
    ELSE parts[1] \o sep \o JoinWith(Tail(parts), sep)

Arrow == <<" ", "-", "-", ">", " ">>

generateSRT(cues) ==
    JoinWith([i \in 1..Len(cues) |->
                 NumToString(i) \o <<"\n">> \o formatSRTTime(cues[i].startTime) \o Arrow
                     \o formatSRTTime(cues[i].endTime) \o <<"\n">> \o cues[i].text],
             <<"\n", "\n">>)

VttHeader == <<"W", "E", "B", "V", "T", "T", "\n", "\n">>

generateVTT(cues) ==
    VttHeader \o
    JoinWith([i \in 1..Len(cues) |->
                 NumToString(i) \o <<"\n">> \o formatVTTTime(cues[i].startTime) \o Arrow
                     \o formatVTTTime(cues[i].endTime) \o <<"\n">> \o cues[i].text],
             <<"\n", "\n">>)

IsSpace(c) == c = " " \/ c = "\n"

\* str.trim()
RECURSIVE TrimStart(_)
TrimStart(str) ==
    IF str # <<>> /\ IsSpace(str[1]) THEN TrimStart(Tail(str)) ELSE str

RECURSIVE TrimEnd(_)
TrimEnd(str) ==
    IF str # <<>> /\ IsSpace(str[Len(str)]) THEN TrimEnd(SubSeq(str, 1, Len(str) - 1))
    ELSE str

Trim(str) == TrimEnd(TrimStart(str))

\* the end of the run of white space that starts at position i
RECURSIVE SpaceRunEnd(_, _)
SpaceRunEnd(str, i) ==
    IF i + 1 <= Len(str) /\ IsSpace(str[i + 1]) THEN SpaceRunEnd(str, i + 1) ELSE i

\* the places where /\n\s*\n/ matches: a line break i whose white-space run holds another
BlockBreaks(str) ==
    {i \in 1..Len(str) :
        /\ str[i] = "\n"
        /\ \E j \in (i + 1)..SpaceRunEnd(str, i) : str[j] = "\n"}

\* str.split(/\n\s*\n/)
RECURSIVE SplitBlocks(_)
SplitBlocks(str) ==
    IF BlockBreaks(str) = {} THEN <<str>>
    ELSE LET i == CHOOSE b \in BlockBreaks(str) : \A c \in BlockBreaks(str) : b <= c
             run == SpaceRunEnd(str, i)
             j == CHOOSE b \in (i + 1)..run :
                      str[b] = "\n" /\ \A c \in (b + 1)..run : str[c] # "\n"
         IN  <<SubSeq(str, 1, i - 1)>> \o SplitBlocks(SubSeq(str, j + 1, Len(str)))

\* str.split('\n')
RECURSIVE SplitLines(_)
SplitLines(str) ==
    IF \A i \in 1..Len(str) : str[i] # "\n" THEN <<str>>
    ELSE LET i == CHOOSE j \in 1..Len(str) :
                      str[j] = "\n" /\ \A h \in 1..(j - 1) : str[h] # "\n"
         IN  <<SubSeq(str, 1, i - 1)>> \o SplitLines(SubSeq(str, i + 1, Len(str)))

\* str.replace(/<[^>]+>/g, '')
RECURSIVE StripTags(_)
StripTags(str) ==
    LET opens == {i \in 1..Len(str) :
                     /\ str[i] = "<"
                     /\ i + 1 <= Len(str)
                     /\ str[i + 1] # ">"
                     /\ \E j \in (i + 2)..Len(str) : str[j] = ">"}
    IN  IF opens = {} THEN str
        ELSE LET i == CHOOSE a \in opens : \A b \in opens : a <= b
                 j == CHOOSE c \in (i + 2)..Len(str) :
                          str[c] = ">" /\ \A d \in (i + 2)..(c - 1) : str[d] # ">"
             IN  SubSeq(str, 1, i - 1) \o StripTags(SubSeq(str, j + 1, Len(str)))

\* \d{n} at position p
DigitsAt(line, p, n) == p + n - 1 <= Len(line) /\ \A k \in p..(p + n - 1) : IsDigit(line[k])

CharAt(line, p, chars) == p <= Len(line) /\ line[p] \in chars

\* parseInt of the n digits at position p
RECURSIVE ParseIntAt(_, _, _)
ParseIntAt(line, p, n) ==
    IF n = 0 THEN 0 ELSE ParseIntAt(line, p, n - 1) * 10 + DigitOf(line[p + n - 1])

\* (\d{2}):(\d{2}):(\d{2})[seps](\d{3}) at position p
LongStampAt(line, p, seps) ==
    /\ DigitsAt(line, p, 2) /\ CharAt(line, p + 2, {":"})
    /\ DigitsAt(line, p + 3, 2) /\ CharAt(line, p + 5, {":"})
    /\ DigitsAt(line, p + 6, 2) /\ CharAt(line, p + 8, seps)
    /\ DigitsAt(line, p + 9, 3)

\* (\d{2}):(\d{2})[seps](\d{3}) at position p
ShortStampAt(line, p, seps) ==
    /\ DigitsAt(line, p, 2) /\ CharAt(line, p + 2, {":"})
    /\ DigitsAt(line, p + 3, 2) /\ CharAt(line, p + 5, seps)
    /\ DigitsAt(line, p + 6, 3)

\* hours * 3600 + minutes * 60 + seconds + milliseconds / 1000, in ticks
LongStampTime(line, p) ==
    ParseIntAt(line, p, 2) * 432000 + ParseIntAt(line, p + 3, 2) * 7200
        + ParseIntAt(line, p + 6, 2) * 120 + (ParseIntAt(line, p + 9, 3) * 3) \div 25

ShortStampTime(line, p) ==
    ParseIntAt(line, p, 2) * 7200 + ParseIntAt(line, p + 3, 2) * 120
        + (ParseIntAt(line, p + 6, 3) * 3) \div 25

\* the position after \s* from position p
RECURSIVE SkipSpace(_, _)
SkipSpace(line, p) ==
    IF p <= Len(line) /\ IsSpace(line[p]) THEN SkipSpace(line, p + 1) ELSE p

\* the position after \s*-->\s* from position p, or 0
AfterArrow(line, p) ==
    LET q == SkipSpace(line, p)
    IN  IF CharAt(line, q, {"-"}) /\ CharAt(line, q + 1, {"-"}) /\ CharAt(line, q + 2, {">"})
        THEN SkipSpace(line, q + 3) ELSE 0

\* the length of the stamp at p: with hours when allowed and present, else without
StampLen(line, p, seps, shortAllowed) ==
    IF LongStampAt(line, p, seps) THEN 12
    ELSE IF shortAllowed /\ ShortStampAt(line, p, seps) THEN 9
    ELSE 0

StampTime(line, p, seps) ==
    IF LongStampAt(line, p, seps) THEN LongStampTime(line, p) ELSE ShortStampTime(line, p)

\* the positions where the time-line pattern matches
StampMatches(line, seps, shortAllowed) ==
    {p \in 1..Len(line) :
        /\ StampLen(line, p, seps, shortAllowed) > 0
        /\ LET r == AfterArrow(line, p + StampLen(line, p, seps, shortAllowed))
           IN  r > 0 /\ StampLen(line, r, seps, shortAllowed) > 0}

NoMatch == [matched |-> FALSE, startTime |-> 0, endTime |-> 0]

\* timeLine.match(...): the times of the leftmost match
MatchTimeLine(line, seps, shortAllowed) ==
    LET ms == StampMatches(line, seps, shortAllowed)
    IN  IF ms = {} THEN NoMatch
        ELSE LET p == CHOOSE a \in ms : \A b \in ms : a <= b
                 r == AfterArrow(line, p + StampLen(line, p, seps, shortAllowed))
             IN  [matched |-> TRUE, startTime |-> StampTime(line, p, seps),
                  endTime |-> StampTime(line, r, seps)]

\* the for loop of parseSRT over the blocks; id is the next uid
RECURSIVE ParseSRTBlocks(_, _)
ParseSRTBlocks(blocks, id) ==
    IF blocks = <<>> THEN <<>>
    ELSE LET lines == SplitLines(Trim(Head(blocks)))
             match == IF Len(lines) < 3 THEN NoMatch
                      ELSE MatchTimeLine(lines[2], {",", "."}, FALSE)
         IN  IF ~match.matched THEN ParseSRTBlocks(Tail(blocks), id)
             ELSE <<[id |-> id, startTime |-> match.startTime, endTime |-> match.endTime,
                     text |-> StripTags(JoinWith(SubSeq(lines, 3, Len(lines)), <<"\n">>))]>>
                  \o ParseSRTBlocks(Tail(blocks), id + 1)

parseSRT(text, id) == ParseSRTBlocks(SplitBlocks(Trim(text)), id)

\* the index of the first line that includes '-->', or the first line
TimeLineIdx(lines) ==
    LET hits == {i \in 1..Len(lines) : \E p \in 1..Len(lines[i]) :
                    /\ CharAt(lines[i], p, {"-"}) /\ CharAt(lines[i], p + 1, {"-"})
                    /\ CharAt(lines[i], p + 2, {">"})}
    IN  IF hits = {} THEN 1 ELSE CHOOSE i \in hits : \A j \in hits : i <= j

RECURSIVE ParseVTTBlocks(_, _)
ParseVTTBlocks(blocks, id) ==
    IF blocks = <<>> THEN <<>>
    ELSE LET lines == SplitLines(Trim(Head(blocks)))
             idx == TimeLineIdx(lines)
             match == MatchTimeLine(lines[idx], {"."}, TRUE)
         IN  IF ~match.matched THEN ParseVTTBlocks(Tail(blocks), id)
             ELSE <<[id |-> id, startTime |-> match.startTime, endTime |-> match.endTime,
                     text |-> StripTags(JoinWith(SubSeq(lines, idx + 1, Len(lines)),
                                                 <<"\n">>))]>>
                  \o ParseVTTBlocks(Tail(blocks), id + 1)

\* text.indexOf('\n\n'), or 0
HeaderEnd(text) ==
    LET hits == {i \in 1..(Len(text) - 1) : text[i] = "\n" /\ text[i + 1] = "\n"}
    IN  IF hits = {} THEN 0 ELSE CHOOSE i \in hits : \A j \in hits : i <= j

parseVTT(text, id) ==
    IF HeaderEnd(text) = 0 THEN <<>>
    ELSE ParseVTTBlocks(SplitBlocks(Trim(SubSeq(text, HeaderEnd(text) + 2, Len(text)))), id)

\* trimmed.startsWith('WEBVTT')
StartsWithWebVTT(text) == Len(text) >= 6 /\ SubSeq(text, 1, 6) = SubSeq(VttHeader, 1, 6)

parseSubtitles(text, id) ==
    IF StartsWithWebVTT(Trim(text)) THEN parseVTT(Trim(text), id) ELSE parseSRT(Trim(text), id)

\* handleFileChange, reader.onload: the cues of the chosen file replace the active cues
handleFileChange(text) ==
    LET cues == parseSubtitles(text, nextUid)
    IN  /\ IF HasActive
           THEN /\ nextUid + Len(cues) - 1 <= MaxCueUid
                /\ elements' = updateElementIn(elements, active.id, [cues |-> cues])
                /\ nextUid' = nextUid + Len(cues)
           ELSE /\ nextUid + Len(cues) <= MaxCueUid
                /\ elements' = addElementTo(elements,
                      createSubtitleElement(nextUid + Len(cues), cues, <<>>))
                /\ nextUid' = nextUid + Len(cues) + 1
        /\ UNCHANGED selectedIds

(***************************************************************************)
(* SpecCues: the subtitle panel.  Cues are added at the playhead, their    *)
(* text is edited, they are split, merged and deleted; the playhead moves. *)
(***************************************************************************)
CueTexts == { <<"H", "i">>, <<"a", " ", "b", " ", "c">> }
CueTimes == {0, 120}

otherThanCues ==
    <<regions, applied, analyzing, isPlaying, previewOut, prevPreview, exportFrame,
      duration, settingsFps, dialogProgress, error, abortRef, ffmpegInstance, fsFrames,
      fsOutput, runs, downloads, historyVars, timelineVars, shuttleVars>>

CueAdd ==
    /\ handleAddCue
    /\ UNCHANGED currentTime
    /\ UNCHANGED otherThanCues

CueEditText ==
    /\ HasActive
    /\ \E cueId \in CueIds(active.cues), text \in CueTexts :
          handleUpdateCue(cueId, [text |-> text])
    /\ UNCHANGED currentTime
    /\ UNCHANGED otherThanCues

CueDelete ==
    /\ HasActive
    /\ \E cueId \in CueIds(active.cues) : handleDeleteCue(cueId)
    /\ UNCHANGED currentTime
    /\ UNCHANGED otherThanCues

CueMerge ==
    /\ HasActive
    /\ \E cueId \in CueIds(active.cues) : handleMergeCues(cueId)
    /\ UNCHANGED currentTime
    /\ UNCHANGED otherThanCues

\* cue times whose middle is a whole tick
CueSplit ==
    /\ HasActive
    /\ \E cueId \in CueIds(active.cues) :
          /\ LET cue == active.cues[CueIndex(active.cues, cueId)]
             IN  (cue.startTime + cue.endTime) % 2 = 0
          /\ handleSplitCue(cueId)
    /\ UNCHANGED currentTime
    /\ UNCHANGED otherThanCues

CueSeek ==
    /\ \E t \in CueTimes : currentTime' = t
    /\ UNCHANGED <<storeVars>>
    /\ UNCHANGED otherThanCues

\* a subtitle file of another tool: two cues, the later one first
LateCue == [id |-> 0, startTime |-> 240, endTime |-> 360, text |-> <<"b">>]
EarlyCue == [id |-> 0, startTime |-> 0, endTime |-> 120, text |-> <<"a">>]
UserFiles == { generateSRT(<<LateCue, EarlyCue>>), generateVTT(<<EarlyCue>>) }

\* the files the user can choose: those of other tools and the ones just exported
ImportFiles ==
    UserFiles \cup (IF HasActive
                    THEN {generateSRT(active.cues), generateVTT(active.cues)} ELSE {})

CueImport ==
    /\ \E text \in ImportFiles : handleFileChange(text)
    /\ UNCHANGED currentTime
    /\ UNCHANGED otherThanCues

NextCues ==
    \/ CueAdd
    \/ CueEditText
    \/ CueDelete
    \/ CueMerge
    \/ CueSplit
    \/ CueSeek
    \/ CueImport

SpecCues == Init /\ [][NextCues]_vars

(***************************************************************************)
(* C15: splitting a cue and then re-merging the two halves yields the      *)
(* original: handleSplitCue followed by handleMergeCues on the first half  *)
(* gives a cue whose startTime and endTime equal the original's and whose  *)
(* text equals the original text, for every cue text including a          *)
(* single-word text.                                                       *)
(***************************************************************************)
C15_SplitThenMergeIsOriginal ==
    HasActive =>
        \A i \in 1..Len(active.cues) :
            LET cue == active.cues[i]
                halves == splitCueIn(active.cues, cue.id, nextUid)
                merged == mergeCuesIn(halves, cue.id)[i]
            IN  (cue.startTime + cue.endTime) % 2 = 0 =>
                    /\ merged.startTime = cue.startTime
                    /\ merged.endTime = cue.endTime
                    /\ merged.text = cue.text

(***************************************************************************)
(* C21: after any sequence of subtitle cue operations (add, update,        *)
(* delete, merge, split, import from SRT/VTT) the cues of a subtitle       *)
(* element are ordered by non-decreasing startTime and every cue has       *)
(* endTime >= startTime.                                                   *)
(***************************************************************************)
C21_CuesOrdered ==
    \A k \in 1..Len(elements) :
        elements[k].type = "subtitle" =>
            LET cues == elements[k].cues
            IN  /\ \A i \in 1..(Len(cues) - 1) : cues[i].startTime <= cues[i + 1].startTime
                /\ \A i \in 1..Len(cues) : cues[i].endTime >= cues[i].startTime

(***************************************************************************)
(* C22: subtitle interchange round-trips: for every cue list with          *)
(* millisecond-precision times, parseSRT(generateSRT(cues)) and            *)
(* parseVTT(generateVTT(cues)) return the same number of cues with the     *)
(* same startTime, endTime and text in the same order (ids aside).         *)
(***************************************************************************)
SameCues(a, b) ==
    /\ Len(a) = Len(b)
    /\ \A i \in 1..Len(a) :
          /\ a[i].startTime = b[i].startTime
          /\ a[i].endTime = b[i].endTime
          /\ a[i].text = b[i].text

\* times that are whole milliseconds: multiples of 3 ticks (25 ms)
MsPrecise(cues) ==
    \A i \in 1..Len(cues) : cues[i].startTime % 3 = 0 /\ cues[i].endTime % 3 = 0

C22_InterchangeRoundTrip ==
    (HasActive /\ MsPrecise(active.cues)) =>
        /\ SameCues(parseSRT(generateSRT(active.cues), nextUid), active.cues)
        /\ SameCues(parseVTT(generateVTT(active.cues), nextUid), active.cues)

(***************************************************************************)
(* C23: with the ripple tool active, a trim drag on a clip shifts every    *)
(* subsequent clip on the same track by the trim delta: in a step that     *)
(* drags the right trim handle, each later clip of the track moves by the  *)
(* change of the dragged clip's duration.                                  *)
(***************************************************************************)
SameTrack(a, b) ==
    /\ "trackId" \in DOMAIN a
    /\ "trackId" \in DOMAIN b
    /\ a.trackId = b.trackId

C23_RippleShiftsLaterClips ==
    [][ (TimelineDrag /\ timelineTool = "ripple" /\ dragMode = "trim-right") =>
          LET el == ElementById(elements, dragId)
              delta == ElementById(elements', dragId).duration - el.duration
          IN  \A k \in 1..Len(elements) :
                  ( /\ elements[k].id # dragId
                    /\ SameTrack(elements[k], el)
                    /\ elements[k].startTime >= el.startTime + el.duration )
                  => elements'[k].startTime = elements[k].startTime + delta ]_vars

(***************************************************************************)
(* C24: after any sequence of timeline editing operations (move, trim and  *)
(* slip drags, blade click, split at playhead, Q/W trim to playhead,       *)
(* region materialization) every element in the list, the newly inserted   *)
(* halves and materialized clips included, has duration >= 0.1 s and       *)
(* startTime >= 0.                                                         *)
(***************************************************************************)
C24_DurationAndStartFloors ==
    \A k \in 1..Len(elements) :
        /\ elements[k].duration >= MinDuration
        /\ elements[k].startTime >= 0

(***************************************************************************)
(* Exports under fair scheduling.  Every step exportProject takes by       *)
(* itself is a promise of the encoder or of a timer and is eventually run  *)
(* by the event loop: these steps are weakly fair.  seekVideo              *)
(* (exportPipeline.ts 315-328) waits for the 'seeked' event of the media   *)
(* element and sets no timer, so the completion of a seek is left to the   *)
(* browser and gets no fairness; the user's clicks get none either.        *)
(***************************************************************************)
ExportProgramStep ==
    \/ ExportLoadDone
    \/ ExportPreloadDone
    \/ ExportFrameBegin
    \/ ExportFrameRender
    \/ ExportWriteBegin
    \/ ExportWriteDone
    \/ ExportExecDone
    \/ ExportReadDone
    \/ ExportCleanupStep
    \/ ExportCleanupFinish

SpecExportLive ==
    /\ InitExportSession
    /\ [][NextExport]_vars
    /\ WF_vars(ExportProgramStep)

\* C25: every export that was started eventually reaches a terminal state:
\* its promise resolves (done) or rejects (error, or cancelled once the abort
\* signal is raised), also when a seek of a video never signals completion.
C25_ExportEndsTerminal ==
    \A r \in Runs : (runs[r].pc # "idle") ~> Settled(r)

(***************************************************************************)
(* Playback: playbackStore.ts, the rAF loop of usePlayback, the transport  *)
(* keys of useKeyboardShortcuts, and the project files.                    *)
(***************************************************************************)
\* usePlaybackStore.play / pause / stop / seek / setDuration
play == isPlaying' = TRUE /\ UNCHANGED currentTime

pause == isPlaying' = FALSE /\ UNCHANGED currentTime

stop == isPlaying' = FALSE /\ currentTime' = 0

seek(time) == currentTime' = Max(0, time) /\ isPlaying' = FALSE

setDuration(d) == duration' = d

\* the time between two animation frames, in ticks; 0 is the first frame
\* after play, when lastTimeRef.current is null
TickIntervals == {0, 4}

\* usePlayback: tick(timestamp), delta = elapsed * playbackRate
tick(dt) ==
    /\ isPlaying
    /\ LET next == currentTime + dt * playbackRate
       IN  IF next >= duration
           THEN IF loopEnabled
                THEN SetCurrentTime(0)
                ELSE currentTime' = duration /\ isPlaying' = FALSE
           ELSE SetCurrentTime(next)
    /\ UNCHANGED <<duration, shuttleVars>>

\* the reverse rates the model follows: L doubles a negative rate without a floor
RateBound == 16

\* key 'l': play forward / speed up
KeyL ==
    /\ IF ~isPlaying
       THEN play /\ UNCHANGED playbackRate
       ELSE /\ Min(playbackRate * 2, 8) >= -RateBound
            /\ playbackRate' = Min(playbackRate * 2, 8)
            /\ UNCHANGED playbackVars
    /\ UNCHANGED <<duration, loopEnabled>>

\* key 'j': shuttle reverse
KeyJ ==
    /\ playbackRate' = IF playbackRate > 0 THEN -1 ELSE Max(playbackRate * 2, -8)
    /\ IF ~isPlaying THEN play ELSE UNCHANGED playbackVars
    /\ UNCHANGED <<duration, loopEnabled>>

\* key 'k': pause
KeyK == pause /\ UNCHANGED <<duration, shuttleVars>>

\* key ' ' and the play button
KeySpace == TogglePlay /\ UNCHANGED <<duration, shuttleVars>>

\* the stop button
StopButton == stop /\ UNCHANGED <<duration, shuttleVars>>

\* ArrowLeft / ArrowRight with nothing selected: 1 frame (1/30 s), with shift 5
FrameSteps == {4, 20}

KeyArrowLeft(step) ==
    /\ selectedIds = {}
    /\ SetCurrentTime(Max(0, currentTime - step))
    /\ UNCHANGED <<duration, shuttleVars>>

KeyArrowRight(step) ==
    /\ selectedIds = {}
    /\ SetCurrentTime(Min(duration, currentTime + step))
    /\ UNCHANGED <<duration, shuttleVars>>

KeyHome == seek(0) /\ UNCHANGED <<duration, shuttleVars>>

KeyEnd == seek(duration) /\ UNCHANGED <<duration, shuttleVars>>

\* Inspector, animation tab: 'Preview Animation' of the selected element
PreviewAnimation ==
    /\ \E i \in 1..Len(elements) :
          /\ selectedIds = {elements[i].id}
          /\ currentTime' = Max(0, elements[i].startTime)
    /\ isPlaying' = TRUE
    /\ UNCHANGED <<duration, shuttleVars>>

\* useElementStore.setElements
SetElements(els) ==
    /\ elements' = els
    /\ UNCHANGED <<selectedIds, nextUid>>

\* useElementStore.deselectAll / selectAll
DeselectAll == selectedIds' = {} /\ UNCHANGED <<elements, nextUid>>

SelectAll == selectedIds' = Ids(elements) /\ UNCHANGED <<elements, nextUid>>

\* a project file: the elements and duration an earlier session saved (its
\* element ids are that session's), duration 0 when the file has none
ProjectFiles ==
    { [elements |-> <<createTextElement(7, [startTime |-> 120])>>,
       duration |-> d] : d \in {0, 1200} }

\* projectService.importProjectJSON / loadProject: setElements, then setDuration
ImportProject(file) ==
    /\ SetElements(file.elements)
    /\ IF file.duration # 0 THEN setDuration(file.duration) ELSE UNCHANGED duration

(***************************************************************************)
(* SpecPlayback: the transport.  A project is opened, its element is       *)
(* selected, and the playhead is moved by the keys, the buttons, the       *)
(* scrub bar and the running playback.                                     *)
(***************************************************************************)
otherThanPlayback ==
    <<regions, applied, analyzing, renderVars, settingsFps, dialogProgress, error,
      abortRef, ffmpegInstance, fsFrames, fsOutput, runs, downloads, historyVars,
      timelineVars>>

PlaybackTick ==
    /\ \E dt \in TickIntervals : tick(dt)
    /\ UNCHANGED <<storeVars, otherThanPlayback>>

PlaybackKeyL == KeyL /\ UNCHANGED <<storeVars, otherThanPlayback>>

PlaybackKeyJ == KeyJ /\ UNCHANGED <<storeVars, otherThanPlayback>>

PlaybackKeyK == KeyK /\ UNCHANGED <<storeVars, otherThanPlayback>>

PlaybackKeySpace == KeySpace /\ UNCHANGED <<storeVars, otherThanPlayback>>

PlaybackStop == StopButton /\ UNCHANGED <<storeVars, otherThanPlayback>>

PlaybackArrowLeft ==
    /\ \E step \in FrameSteps : KeyArrowLeft(step)
    /\ UNCHANGED <<storeVars, otherThanPlayback>>

PlaybackArrowRight ==
    /\ \E step \in FrameSteps : KeyArrowRight(step)
    /\ UNCHANGED <<storeVars, otherThanPlayback>>

PlaybackHome == KeyHome /\ UNCHANGED <<storeVars, otherThanPlayback>>

PlaybackEnd == KeyEnd /\ UNCHANGED <<storeVars, otherThanPlayback>>

PlaybackScrub ==
    /\ \E x \in ScrubXs : Scrub(x)
    /\ UNCHANGED <<isPlaying, duration, shuttleVars, storeVars, otherThanPlayback>>

PlaybackPreviewAnimation == PreviewAnimation /\ UNCHANGED <<storeVars, otherThanPlayback>>

PlaybackSelect ==
    /\ \E id \in Ids(elements) : SelectElement(id, FALSE)
    /\ UNCHANGED <<playbackVars, duration, shuttleVars, otherThanPlayback>>

PlaybackDeselect ==
    /\ selectedIds # {}
    /\ DeselectAll
    /\ UNCHANGED <<playbackVars, duration, shuttleVars, otherThanPlayback>>

PlaybackImport ==
    /\ \E file \in ProjectFiles : ImportProject(file)
    /\ UNCHANGED <<playbackVars, shuttleVars, otherThanPlayback>>

NextPlayback ==
    \/ PlaybackTick
    \/ PlaybackKeyL
    \/ PlaybackKeyJ
    \/ PlaybackKeyK
    \/ PlaybackKeySpace
    \/ PlaybackStop
    \/ PlaybackArrowLeft
    \/ PlaybackArrowRight
    \/ PlaybackHome
    \/ PlaybackEnd
    \/ PlaybackScrub
    \/ PlaybackPreviewAnimation
    \/ PlaybackSelect
    \/ PlaybackDeselect
    \/ PlaybackImport

SpecPlayback == Init /\ [][NextPlayback]_vars

(***************************************************************************)
(* SpecShuttle: playback left to run.  The user presses only the shuttle   *)
(* keys J and L; the animation frame callback is requested again at the    *)
(* end of every tick while isPlaying holds, and the browser runs it, so    *)
(* the tick is weakly fair.                                                *)
(***************************************************************************)
NextShuttle ==
    \/ PlaybackKeyL
    \/ PlaybackKeyJ
    \/ PlaybackTick

SpecShuttle == Init /\ [][NextShuttle]_vars /\ WF_vars(PlaybackTick)

\* C26: once playback has been started with looping disabled, it eventually
\* stops (isPlaying false) with currentTime equal to duration, at every
\* playback rate the J and L keys can set.
C26_PlaybackReachesEnd ==
    (isPlaying /\ ~loopEnabled) ~> (~isPlaying /\ currentTime = duration)

\* C28: the playhead stays inside the composition: 0 <= currentTime <= duration
\* after seek, setCurrentTime, stop, playback ticks, frame stepping, Home/End,
\* 'Preview Animation', setDuration and project load.
C28_PlayheadWithinDuration == 0 <= currentTime /\ currentTime <= duration

(***************************************************************************)
(* The selection: duplicateElements, and the editing session in which      *)
(* elements are added, patched, duplicated, deleted, selected and replaced *)
(* by a project file.  Undo, redo and materialization are in SpecUndo.     *)
(***************************************************************************)
\* the elements of els whose id is in ids, in list order
RECURSIVE Keep(_, _)
Keep(els, ids) ==
    IF els = <<>> THEN <<>>
    ELSE IF Head(els).id \in ids THEN <<Head(els)>> \o Keep(Tail(els), ids)
         ELSE Keep(Tail(els), ids)

\* useElementStore.duplicateElements: the copies get fresh ids and are selected
\* (the x, y offset and the name suffix are outside the modelled fields)
DuplicateElements(ids) ==
    LET orig == Keep(elements, ids)
        dupes == [k \in 1..Len(orig) |-> Merge(orig[k], [id |-> nextUid + k - 1])]
    IN  /\ nextUid + Len(orig) - 1 <= MaxUid
        /\ elements' = elements \o dupes
        /\ selectedIds' = Ids(dupes)
        /\ nextUid' = nextUid + Len(orig)

SelectionSelectAll == SelectAll /\ UNCHANGED otherThanStore

SelectionDeselectAll == DeselectAll /\ UNCHANGED otherThanStore

\* Cmd+D: duplicateElements([...selectedIds])
SelectionDuplicate ==
    /\ selectedIds # {}
    /\ Len(elements) + Cardinality(selectedIds) <= MaxElements
    /\ DuplicateElements(selectedIds)
    /\ UNCHANGED otherThanStore

\* a project is opened: setElements (the duration is outside this session)
SelectionImport ==
    /\ \E file \in ProjectFiles : SetElements(file.elements)
    /\ UNCHANGED otherThanStore

NextSelection ==
    \/ StoreAdd
    \/ StoreUpdate
    \/ StoreDelete
    \/ StoreDeleteSelected
    \/ StoreSelect
    \/ SelectionSelectAll
    \/ SelectionDeselectAll
    \/ SelectionDuplicate
    \/ SelectionImport

SpecSelection == Init /\ [][NextSelection]_vars

\* C27: every selected id is the id of an element of the list, after
\* addElement, updateElement, deleteElements, duplicateElements, setElements
\* (project load), selectElement, selectAll, deselectAll, region
\* materialization, undo and redo.
C27_SelectionWithinElements == selectedIds \subseteq Ids(elements)

(***************************************************************************)
(* SpecCutUndo: cuts with the undo history.  Clips are dropped, cut with   *)
(* the blade or split at the playhead, and the edits are undone and        *)
(* redone.  bladeClip and splitAtPlayhead call updateElement and then      *)
(* addElement: each call is one set of the store.                          *)
(***************************************************************************)
\* the store states after the sets of one cut of el at time t
CutSets(els, el, t, id) ==
    IF t <= el.startTime \/ t >= el.startTime + el.duration
    THEN <<>>
    ELSE <<[elements |-> updateElementIn(els, el.id, [duration |-> t - el.startTime]),
            selectedIds |-> selectedIds],
           [elements |-> bladeClip(els, el, t, id), selectedIds |-> selectedIds]>>

\* the store states after the sets of splitAtPlayhead
RECURSIVE SplitSets(_, _, _, _, _)
SplitSets(els, els0, ids, time, id) ==
    IF ids = <<>> THEN <<>>
    ELSE LET el == ElementById(els0, Head(ids))
             cut == bladeClip(els, el, time, id)
         IN  CutSets(els, el, time, id)
               \o SplitSets(cut, els0, Tail(ids), time, IF cut = els THEN id ELSE id + 1)

otherThanCut == <<autoCutVars, isPlaying, renderVars, exportVars, shuttleVars>>

CutDrop ==
    /\ \E x \in DropXs : Len(elements) < MaxElements /\ TimelineDrop(x)
    /\ Recorded(<<[elements |-> elements', selectedIds |-> selectedIds']>>)
    /\ UNCHANGED <<currentTime, snapEnabled, timelineZoom, timelineTool>>
    /\ UNCHANGED otherThanCut

CutSetTool ==
    /\ \E tool \in {"select", "blade"} : tool # timelineTool /\ SetTimelineTool(tool)
    /\ UNCHANGED <<storeVars, currentTime, dragMode, dragId, dragStartRef, snapEnabled,
                   timelineZoom, drags, historyVars>>
    /\ UNCHANGED otherThanCut

CutClick ==
    /\ timelineTool = "blade"
    /\ \E id \in Ids(elements), x \in BladeXs :
          /\ ClipMouseDown(id, "body", x)
          /\ Recorded(CutSets(elements, ElementById(elements, id), pxToTime(x), nextUid))
    /\ UNCHANGED <<currentTime, snapEnabled, timelineZoom, timelineTool>>
    /\ UNCHANGED otherThanCut

CutSelect ==
    /\ \E id \in Ids(elements) : SelectElement(id, FALSE)
    /\ UNCHANGED <<currentTime, timelineVars, historyVars>>
    /\ UNCHANGED otherThanCut

CutScrub ==
    /\ \E x \in BladeXs : Scrub(x)
    /\ UNCHANGED <<storeVars, timelineVars, historyVars>>
    /\ UNCHANGED otherThanCut

CutSplit ==
    /\ splitAtPlayhead
    /\ Recorded(SplitSets(elements, elements, SelectedInOrder(elements, selectedIds),
                          currentTime, nextUid))
    /\ UNCHANGED <<currentTime, snapEnabled, timelineZoom, timelineTool>>
    /\ UNCHANGED otherThanCut

CutUndo ==
    /\ Undo
    /\ UNCHANGED <<currentTime, timelineVars>>
    /\ UNCHANGED otherThanCut

CutRedo ==
    /\ Redo
    /\ UNCHANGED <<currentTime, timelineVars>>
    /\ UNCHANGED otherThanCut

NextCutUndo ==
    \/ CutDrop
    \/ CutSetTool
    \/ CutClick
    \/ CutSelect
    \/ CutScrub
    \/ CutSplit
    \/ CutUndo
    \/ CutRedo

SpecCutUndo == Init /\ [][NextCutUndo]_vars

\* C29: a blade cut or a split of one element is a single undo step: the cut
\* adds exactly one entry to the undo history, the list before the cut, so
\* that one undo brings back the uncut element.
C29_CutIsOneUndoStep ==
    [][ ((CutClick \/ CutSplit) /\ Len(elements') = Len(elements) + 1)
          => pastStates' = Append(pastStates, StoreState) ]_vars

\* C30: at most one export run is active on the shared encoder instance and
\* its frame files: a new export starts only after the previous run has
\* settled (resolved or rejected), cancelled runs included.
C30_OneActiveExport ==
    \A r1, r2 \in Runs :
        (/\ runs[r1].pc # "idle" /\ ~Settled(r1)
         /\ runs[r2].pc # "idle" /\ ~Settled(r2)
         /\ runs[r1].inst = runs[r2].inst)
          => r1 = r2

====
